---- MODULE Spec2Model ----
(***************************************************************************)
(* Model of the bunge-bits ingestion pipeline:                             *)
(*   crates/stream_pulse/src/lib/processor.rs   (LiveStreamProcessor)      *)
(*   crates/stream_datastore/src/datastore/postgres.rs (PgDataStore)       *)
(*   crates/stream_pulse/src/lib/parser.rs      (parse_streams, to_json)   *)
(* One pipeline run is LiveStreamProcessor::run; the external scheduler    *)
(* starts a new run after the previous one has returned.                   *)
(***************************************************************************)
EXTENDS Integers, Sequences, FiniteSets, TLC

(* ------------------------------ bounds -------------------------------- *)
\* longest candidate list drawn for the Selection Stage on its own
MaxLen == 3
\* largest max_streams a processor is configured with
MaxStreams == 2
\* threads of the rayon pool that runs the Audio Stage
NumThreads == 2
\* calls of the audio handler on one item
MaxAttempts == 3
\* chunks the split of one item's audio yields
MaxChunks == 3
\* times the process is killed during one item's transcription
MaxCrashes == 1
\* items in the list of a channel page handed to parse_streams
MaxNodes == 2
\* pieces between colons in a duration text
MaxPieces == 4
\* script blocks and stretches of other text in a document
MaxBlocks == 3

(* ------------------------------ values -------------------------------- *)
None == <<>>
Some(v) == <<v>>

VideoIds == {"a", "b", "c"}
\* relative publish-time texts; "" is what the parser stores when the
\* publishedTimeText object carries no simpleText (parser.rs:120-125)
StreamedDates == {"", "1 day ago", "2 days ago"}

\* a Stream as the parser builds it: the texts of the page's node, the other
\* fields at their defaults
Stream(id, date) ==
    [video_id |-> id, title |-> <<"title", id>>, view_count |-> <<"views", id>>,
     streamed_date |-> date, duration |-> <<"length", id>>,
     summary_md |-> None, timestamp_md |-> None]
Streams == {Stream(id, d) : id \in VideoIds, d \in StreamedDates}

\* all sequences over S of length at most n
SeqsUpTo(S, n) == UNION {[1..k -> S] : k \in 0..n}

Min(a, b) == IF a < b THEN a ELSE b

(* --------------------- Stream::timestamp_from_time_ago ----------------- *)
\* days counted back from the moment of the call, None when the text does
\* not have the "<n> <unit> ago" shape
timestamp_from_time_ago(s) ==
    CASE s.streamed_date = "1 day ago"  -> Some(0 - 1)
      [] s.streamed_date = "2 days ago" -> Some(0 - 2)
      [] OTHER -> None

\* Ord for Option<DateTime>: None sorts before every Some
OptionLess(x, y) ==
    IF x = None THEN y # None
    ELSE y # None /\ x[1] < y[1]

(* ------------------- Itertools::sorted_by (stable) -------------------- *)
\* faulty variant: an element is placed before the elements it compares equal to
RECURSIVE insert_tail_unstable(_, _)
insert_tail_unstable(sorted, x) ==
    IF sorted = <<>> THEN <<x>>
    ELSE IF OptionLess(timestamp_from_time_ago(sorted[Len(sorted)]),
                       timestamp_from_time_ago(x))
         THEN Append(sorted, x)
         ELSE Append(insert_tail_unstable(SubSeq(sorted, 1, Len(sorted) - 1), x),
                     sorted[Len(sorted)])

\* one insertion step of the stable sort: x goes after every element that
\* does not compare greater than it
RECURSIVE insert_tail(_, _)
insert_tail(sorted, x) ==
    IF sorted = <<>> THEN <<x>>
    ELSE IF OptionLess(timestamp_from_time_ago(x),
                       timestamp_from_time_ago(sorted[Len(sorted)]))
         THEN Append(insert_tail(SubSeq(sorted, 1, Len(sorted) - 1), x),
                     sorted[Len(sorted)])
         ELSE Append(sorted, x)

RECURSIVE sorted_by(_)
sorted_by(seq) ==
    IF seq = <<>> THEN <<>>
    ELSE insert_tail(sorted_by(SubSeq(seq, 1, Len(seq) - 1)), seq[Len(seq)])

take(seq, n) == SubSeq(seq, 1, Min(n, Len(seq)))

RECURSIVE filter_not_existing(_, _)
filter_not_existing(seq, existing_stream_ids) ==
    IF seq = <<>> THEN <<>>
    ELSE LET rest == filter_not_existing(Tail(seq), existing_stream_ids)
         IN  IF Head(seq).video_id \in existing_stream_ids
             THEN rest ELSE <<Head(seq)>> \o rest

\* faulty variant: the cap keeps one element too many
sort_filter_limit_streams_offbyone(streams, existing_stream_ids, max_streams) ==
    take(sorted_by(filter_not_existing(streams, existing_stream_ids)), max_streams + 1)

\* the value returned by sort_filter_limit_streams once the lookup succeeded
sort_filter_limit_streams(streams, existing_stream_ids, max_streams) ==
    take(sorted_by(filter_not_existing(streams, existing_stream_ids)), max_streams)

(* ------------------ PgDataStore (table "streams") --------------------- *)
\* the row bulk_insert_streams binds for a stream that has a timestamp
Row(s) == [video_id         |-> s.video_id,
           title            |-> s.title,
           view_count       |-> s.view_count,
           stream_timestamp |-> timestamp_from_time_ago(s)[1],
           duration         |-> s.duration,
           summary_md       |-> s.summary_md,
           timestamp_md     |-> s.timestamp_md]

\* a row collides with a stored one on the table's unique key, video_id
conflicts(table, row) == \E k \in 1..Len(table) : table[k].video_id = row.video_id

\* INSERT ... SELECT * FROM UNNEST(...) ON CONFLICT DO NOTHING
RECURSIVE insert_on_conflict_do_nothing(_, _)
insert_on_conflict_do_nothing(table, rows) ==
    IF rows = <<>> THEN table
    ELSE insert_on_conflict_do_nothing(
             IF conflicts(table, Head(rows)) THEN table ELSE Append(table, Head(rows)),
             Tail(rows))

HasTimestamp(s) == timestamp_from_time_ago(s) # None

\* partition_map: the streams whose streamed_date yields a timestamp
valid_streams(strs) == SelectSeq(strs, HasTimestamp)

\* faulty variant: a plain INSERT, every bound row is appended
bulk_insert_streams_no_conflict(table, strs) ==
    LET valid == valid_streams(strs)
    IN  table \o [i \in 1..Len(valid) |-> Row(valid[i])]

\* faulty variant: a row that collides replaces the stored one (the stored
\* row is deleted and the bound row is appended)
RECURSIVE insert_on_conflict_replace(_, _)
insert_on_conflict_replace(table, rows) ==
    IF rows = <<>> THEN table
    ELSE LET row == Head(rows)
             Other(r) == r.video_id # row.video_id
         IN  insert_on_conflict_replace(Append(SelectSeq(table, Other), row), Tail(rows))

bulk_insert_streams_replace(table, strs) ==
    LET valid == valid_streams(strs)
    IN  insert_on_conflict_replace(table, [i \in 1..Len(valid) |-> Row(valid[i])])

\* the table after a bulk_insert_streams that returned Ok
bulk_insert_streams(table, strs) ==
    LET valid == valid_streams(strs)
    IN  insert_on_conflict_do_nothing(table, [i \in 1..Len(valid) |-> Row(valid[i])])

\* SELECT video_id FROM streams WHERE video_id = ANY($1)
get_existing_stream_ids(table, video_ids) ==
    {table[k].video_id : k \in 1..Len(table)} \cap video_ids

(* ------------------- collaborators' return values --------------------- *)
trimmed_path(s) == <<s.video_id, "_trimmed.mp3">>
TranscriptOf(audio_path) == <<"transcript", audio_path>>
SummaryOf(text) == <<"summary", text>>

\* what the closure of the parallel map returns for item i:
\* (processed_audio_path, stream); the stream is a reference to the i-th item
ClosureResult(strs, i) == [audio_path |-> trimmed_path(strs[i]), stream |-> i]

\* faulty variant: the paths are kept in the order the closures returned and
\* paired with the items by position
collect_by_completion(results) ==
    [k \in 1..Len(results) |-> [audio_path |-> results[k].audio_path, stream |-> k]]

\* collect::<Result<Vec<_>>>() on the parallel map: the results in the order
\* of the items, whatever order the closures returned in
collect(results) ==
    [k \in 1..Len(results) |->
        LET at == {j \in 1..Len(results) :
                      Cardinality({l \in 1..Len(results) :
                                      results[l].stream < results[j].stream}) = k - 1}
        IN  results[CHOOSE j \in at : TRUE]]

(* ---- OpenAIClient::transcribe on a Chunked input, inside run (SpecChunk) ---- *)
\* chunk_duration_seconds of the AudioInput::Chunked that run builds
ChunkDurationSeconds == 900

\* chunking_config of a built processor: chunking off, or on with a duration
\* in seconds
ChunkingConfigs == {None, Some(600), Some(ChunkDurationSeconds)}

\* no parser call is modelled
NoParse == [fn |-> "none"]

(* ------------------------------ state --------------------------------- *)
VARIABLES
    mode,            \* which specification is running: "sel" or "run"
    channel,         \* streams parse_streams yields for the page (processor.rs:181)
    max_streams,     \* cap given to run (processor.rs:178)
    existing,        \* existing_stream_ids of this run (processor.rs:151-158)
    streams,         \* the selected batch, `let mut streams` (processor.rs:184)
    pc,              \* stage of the run (processor.rs:178-233)
    store,           \* rows of table streams, in insertion order (postgres.rs:106-120)
    task,            \* state of each item's closure in the parallel map (processor.rs:193-200)
    idx,             \* item the sequential loop is at (processor.rs:202)
    transcribe_resp, \* text of the current item's transcript, None before it (processor.rs:214-218)
    result,          \* what run returned: "none" (still running), "ok", "err"
    calls,           \* history: collaborator calls made by this run
    inserted,        \* history: rows this run added to the table (rows_affected, postgres.rs:129)
    failed_in,       \* history: the call whose error run returned
    audio_dir,       \* workdir/audio: None while it does not exist, else the paths in it
    drop_failed,     \* history: remove_dir_all returned Err when the processor was dropped
    au,              \* one item's download and clean_up calls (audio_handler.rs:20-74)
    tr,              \* one call of OpenAIClient::transcribe (openai.rs:178-253)
    finished,        \* results of the closures that returned Ok, in the order they returned
    stream_audio_paths, \* the Vec the parallel map collects (processor.rs:193-200)
    chunking_config, \* the builder's chunking_config: None, or Some(seconds) (builder.rs:127-132)
    parse            \* one call of a parser function: its input and what it returned (parser.rs)

cfg_vars == <<chunking_config, parse>>
sel_vars == <<mode, channel, max_streams, existing, streams, pc, cfg_vars>>
fs_vars == <<audio_dir, drop_failed>>
par_vars == <<finished, stream_audio_paths>>
det_vars == <<au, tr, par_vars>>
run_vars == <<store, task, idx, transcribe_resp, result, calls, inserted, failed_in,
              fs_vars, det_vars>>
vars == <<sel_vars, run_vars>>

\* the audio directory of the working directory, workdir.join("audio")
AudioDlPath == <<>>

\* Path::join; a path is the sequence of its names below workdir/audio
join(path, name) == Append(path, name)

\* audio_dl_path.join(format!("{base_name}.mp3"))
audio_mp3_path(s, audio_dl_path) == join(audio_dl_path, <<s.video_id, ".mp3">>)

\* the directory after files were written into it; writing creates it
WithFiles(dir, paths) == Some((IF dir = None THEN {} ELSE dir[1]) \cup paths)

\* Path::exists
exists(dir, path) == dir # None /\ path \in dir[1]

\* au and tr while no call is modelled
NoAudio == [pc |-> "none"]
NoTranscribe == [pc |-> "none"]

NoCalls == [download |-> 0, transcribe |-> 0, summarize |-> 0, insert |-> 0]

(* ----------------- Selection Stage on its own (SpecSel) --------------- *)
InitSel ==
    /\ mode = "sel"
    /\ chunking_config = Some(ChunkDurationSeconds)
    /\ parse = NoParse
    /\ channel \in SeqsUpTo(Streams, MaxLen)
    /\ max_streams \in 0..MaxStreams + 1
    /\ existing \in SUBSET VideoIds
    /\ streams = <<>>
    /\ pc = "input"
    /\ store = <<>> /\ task = <<>> /\ idx = 0 /\ transcribe_resp = None
    /\ result = "none" /\ calls = NoCalls /\ inserted = <<>>
    /\ failed_in = "none"
    /\ audio_dir = None /\ drop_failed = FALSE
    /\ au = NoAudio /\ tr = NoTranscribe
    /\ finished = <<>> /\ stream_audio_paths = <<>>

SelApply ==
    /\ mode = "sel" /\ pc = "input"
    /\ streams' = sort_filter_limit_streams(channel, existing, max_streams)
    /\ pc' = "output"
    /\ UNCHANGED <<cfg_vars, mode, channel, max_streams, existing, run_vars>>

NextSel == SelApply
SpecSel == InitSel /\ [][NextSel]_vars

(* -------------------- LiveStreamProcessor::run (Spec) ----------------- *)
\* channel pages of the pipeline runs: the i-th item carries the i-th id
IdAt == <<"a", "b", "c">>
RunChannels ==
    {ch \in SeqsUpTo(Streams, Min(MaxLen, Len(IdAt))) :
        \A i \in 1..Len(ch) : ch[i].video_id = IdAt[i]}

Init ==
    /\ mode = "run"
    /\ chunking_config = Some(ChunkDurationSeconds)
    /\ parse = NoParse
    /\ channel \in RunChannels
    /\ max_streams \in 0..MaxStreams
    /\ existing = {}
    /\ streams = <<>>
    /\ pc = "Idle"
    /\ store = <<>> /\ task = <<>> /\ idx = 0 /\ transcribe_resp = None
    /\ result = "none" /\ calls = NoCalls /\ inserted = <<>>
    /\ failed_in = "none"
    /\ audio_dir = None /\ drop_failed = FALSE
    /\ au = NoAudio /\ tr = NoTranscribe
    /\ finished = <<>> /\ stream_audio_paths = <<>>

\* faulty variant: the processor is dropped without looking at the directory
DropKeepsDir ==
    /\ audio_dir' = audio_dir
    /\ drop_failed' = FALSE

\* Drop for LiveStreamProcessor, which runs when run(self) returns: the
\* audio directory is removed if it exists; an Err of remove_dir_all is only
\* logged, and the directory stays, with all or none of its files
Drop ==
    IF audio_dir = None
    THEN /\ audio_dir' = None
         /\ drop_failed' = FALSE
    ELSE \/ /\ audio_dir' = None
            /\ drop_failed' = FALSE
         \/ /\ audio_dir' \in {audio_dir, Some({})}
            /\ drop_failed' = TRUE

\* faulty variant: the error is logged and the run carries on to a normal return
FailSwallowed(who) ==
    /\ pc' = "Done"
    /\ result' = "ok"
    /\ failed_in' = who
    /\ Drop

\* an error return of run: `?` hands the error to the caller
Fail(who) ==
    /\ pc' = "Failed"
    /\ result' = "err"
    /\ failed_in' = who
    /\ Drop

\* run is called
BeginRun ==
    /\ mode = "run" /\ pc = "Idle"
    /\ pc' = "Discovering"
    /\ UNCHANGED <<cfg_vars, mode, channel, max_streams, existing, streams, run_vars>>

\* fetch_yt_html_document returns Err
ScrapeFail ==
    /\ mode = "run" /\ pc = "Discovering"
    /\ Fail("scrape")
    /\ UNCHANGED <<cfg_vars, mode, channel, max_streams, existing, streams,
                   store, task, idx, transcribe_resp, calls, inserted, det_vars>>

\* to_json or parse_streams returns Err (the page changed shape)
ParseFail ==
    /\ mode = "run" /\ pc = "Discovering"
    /\ Fail("parse")
    /\ UNCHANGED <<cfg_vars, mode, channel, max_streams, existing, streams,
                   store, task, idx, transcribe_resp, calls, inserted, det_vars>>

\* the page is fetched and parsed into the candidate list
Discover ==
    /\ mode = "run" /\ pc = "Discovering"
    /\ pc' = "Selecting"
    /\ UNCHANGED <<cfg_vars, mode, channel, max_streams, existing, streams, run_vars>>

\* get_existing_stream_ids returns Err
LookupFail ==
    /\ mode = "run" /\ pc = "Selecting"
    /\ Fail("lookup")
    /\ UNCHANGED <<cfg_vars, mode, channel, max_streams, existing, streams,
                   store, task, idx, transcribe_resp, calls, inserted, det_vars>>

\* faulty variant: run goes on to the audio work with an empty batch too
SelectNoEarlyReturn ==
    /\ mode = "run" /\ pc = "Selecting"
    /\ LET ids == {channel[i].video_id : i \in 1..Len(channel)}
           e   == get_existing_stream_ids(store, ids)
           sel == sort_filter_limit_streams(channel, e, max_streams)
       IN  /\ existing' = e
           /\ streams' = sel
           /\ pc' = "AcquiringAudio" /\ result' = result
           /\ task' = [i \in 1..Len(sel) |-> "pending"]
           /\ UNCHANGED fs_vars
    /\ UNCHANGED <<cfg_vars, mode, channel, max_streams, store, idx, transcribe_resp,
                   calls, inserted, failed_in, det_vars>>

\* sort_filter_limit_streams returns Ok; an empty batch ends the run
Select ==
    /\ mode = "run" /\ pc = "Selecting"
    /\ LET ids == {channel[i].video_id : i \in 1..Len(channel)}
           e   == get_existing_stream_ids(store, ids)
           sel == sort_filter_limit_streams(channel, e, max_streams)
       IN  /\ existing' = e
           /\ streams' = sel
           /\ IF sel = <<>>
              THEN /\ pc' = "Done" /\ result' = "ok"
                   /\ task' = <<>>
                   /\ Drop
              ELSE /\ pc' = "AcquiringAudio" /\ result' = result
                   /\ task' = [i \in 1..Len(sel) |-> "pending"]
                   /\ UNCHANGED fs_vars
    /\ UNCHANGED <<cfg_vars, mode, channel, max_streams, store, idx, transcribe_resp,
                   calls, inserted, failed_in, det_vars>>

Running == {i \in 1..Len(task) : task[i] = "running"}
Errored == {i \in 1..Len(task) : task[i] = "err"}

\* a pool thread picks up item i: download_audio is called. The pool looks
\* at the error flag only between the pieces it split the batch into, so an
\* item may still be started after a sibling has failed, or be skipped.
StartAudio(i) ==
    /\ mode = "run" /\ pc = "AcquiringAudio"
    /\ task[i] = "pending"
    /\ Cardinality(Running) < NumThreads
    /\ task' = [task EXCEPT ![i] = "running"]
    /\ calls' = [calls EXCEPT !.download = @ + 1]
    /\ UNCHANGED <<sel_vars, store, idx, transcribe_resp, result, inserted, failed_in,
                   fs_vars, det_vars>>

\* download_audio and process_audio both return Ok for item i
AudioOk(i) ==
    /\ mode = "run" /\ pc = "AcquiringAudio"
    /\ task[i] = "running"
    /\ task' = [task EXCEPT ![i] = "ok"]
    /\ audio_dir' = WithFiles(audio_dir, {audio_mp3_path(streams[i], AudioDlPath)})
    /\ finished' = Append(finished, ClosureResult(streams, i))
    /\ UNCHANGED <<sel_vars, store, idx, transcribe_resp, result, calls,
                   inserted, failed_in, drop_failed, au, tr, stream_audio_paths>>

\* faulty variant: the failed item is put back to be tried again
AudioFailRetried(i) ==
    /\ mode = "run" /\ pc = "AcquiringAudio"
    /\ task[i] = "running"
    /\ task' = [task EXCEPT ![i] = IF calls.download <= Len(task) THEN "pending" ELSE "err"]
    /\ audio_dir' \in {audio_dir, WithFiles(audio_dir, {}),
                       WithFiles(audio_dir, {audio_mp3_path(streams[i], AudioDlPath)})}
    /\ UNCHANGED <<sel_vars, store, idx, transcribe_resp, result, calls,
                   inserted, failed_in, drop_failed, det_vars>>

\* download_audio or process_audio returns Err for item i
AudioFail(i) ==
    /\ mode = "run" /\ pc = "AcquiringAudio"
    /\ task[i] = "running"
    /\ task' = [task EXCEPT ![i] = "err"]
    /\ audio_dir' \in {audio_dir, WithFiles(audio_dir, {}),
                       WithFiles(audio_dir, {audio_mp3_path(streams[i], AudioDlPath)})}
    /\ UNCHANGED <<sel_vars, store, idx, transcribe_resp, result, calls,
                   inserted, failed_in, drop_failed, det_vars>>

\* faulty variant: the loop is entered as soon as the first item's audio is ready
CollectOkEarly ==
    /\ mode = "run" /\ pc = "AcquiringAudio"
    /\ task[1] = "ok"
    /\ pc' = "Transcribing"
    /\ idx' = 1
    /\ stream_audio_paths' = collect(finished)
    /\ UNCHANGED <<cfg_vars, mode, channel, max_streams, existing, streams, store, task,
                   transcribe_resp, result, calls, inserted, failed_in,
                   fs_vars, au, tr, finished>>

\* collect::<Result<Vec<_>>>() returns Ok: every closure returned Ok
CollectOk ==
    /\ mode = "run" /\ pc = "AcquiringAudio"
    /\ \A i \in 1..Len(task) : task[i] = "ok"
    /\ pc' = "Transcribing"
    /\ idx' = 1
    /\ stream_audio_paths' = collect(finished)
    /\ UNCHANGED <<cfg_vars, mode, channel, max_streams, existing, streams, store, task,
                   transcribe_resp, result, calls, inserted, failed_in,
                   fs_vars, au, tr, finished>>

\* faulty variant: the failed items are dropped and the loop takes the others
CollectErrSkipsFailed ==
    /\ mode = "run" /\ pc = "AcquiringAudio"
    /\ Errored # {} /\ Running = {}
    /\ pc' = "Transcribing"
    /\ idx' = 1
    /\ stream_audio_paths' = collect(finished)
    /\ UNCHANGED <<cfg_vars, mode, channel, max_streams, existing, streams, store, task,
                   transcribe_resp, result, calls, inserted, failed_in,
                   fs_vars, au, tr, finished>>

\* collect returns Err once no closure is running any more
CollectErr ==
    /\ mode = "run" /\ pc = "AcquiringAudio"
    /\ Errored # {} /\ Running = {}
    /\ Fail("audio")
    /\ UNCHANGED <<cfg_vars, mode, channel, max_streams, existing, streams,
                   store, task, idx, transcribe_resp, calls, inserted, det_vars>>

\* transcriber.transcribe returns Ok for the item at idx
TranscribeOk ==
    /\ mode = "run" /\ pc = "Transcribing"
    /\ idx <= Len(streams) /\ transcribe_resp = None
    /\ transcribe_resp' = Some(TranscriptOf(stream_audio_paths[idx].audio_path))
    /\ calls' = [calls EXCEPT !.transcribe = @ + 1]
    /\ UNCHANGED <<sel_vars, store, task, idx, result, inserted, failed_in,
                   fs_vars, det_vars>>

\* transcriber.transcribe returns Err
TranscribeFail ==
    /\ mode = "run" /\ pc = "Transcribing"
    /\ idx <= Len(streams) /\ transcribe_resp = None
    /\ calls' = [calls EXCEPT !.transcribe = @ + 1]
    /\ Fail("transcribe")
    /\ UNCHANGED <<cfg_vars, mode, channel, max_streams, existing, streams,
                   store, task, idx, transcribe_resp, inserted, det_vars>>

\* faulty variant: the summary is also written over the item's title
SummarizeOkRetitles ==
    /\ mode = "run" /\ pc = "Transcribing"
    /\ idx <= Len(streams) /\ transcribe_resp # None
    /\ streams' = [streams EXCEPT ![stream_audio_paths[idx].stream].summary_md =
                                      Some(SummaryOf(transcribe_resp[1])),
                                  ![stream_audio_paths[idx].stream].title =
                                      SummaryOf(transcribe_resp[1])]
    /\ transcribe_resp' = None
    /\ idx' = idx + 1
    /\ calls' = [calls EXCEPT !.summarize = @ + 1]
    /\ UNCHANGED <<cfg_vars, mode, channel, max_streams, existing, pc, store, task, result,
                   inserted, failed_in, fs_vars, det_vars>>

\* summarizer.summarize returns Ok; the summary is attached to the item
SummarizeOk ==
    /\ mode = "run" /\ pc = "Transcribing"
    /\ idx <= Len(streams) /\ transcribe_resp # None
    /\ streams' = [streams EXCEPT ![stream_audio_paths[idx].stream].summary_md =
                                      Some(SummaryOf(transcribe_resp[1]))]
    /\ transcribe_resp' = None
    /\ idx' = idx + 1
    /\ calls' = [calls EXCEPT !.summarize = @ + 1]
    /\ UNCHANGED <<cfg_vars, mode, channel, max_streams, existing, pc, store, task, result,
                   inserted, failed_in, fs_vars, det_vars>>

\* summarizer.summarize returns Err
SummarizeFail ==
    /\ mode = "run" /\ pc = "Transcribing"
    /\ idx <= Len(streams) /\ transcribe_resp # None
    /\ calls' = [calls EXCEPT !.summarize = @ + 1]
    /\ Fail("summarize")
    /\ UNCHANGED <<cfg_vars, mode, channel, max_streams, existing, streams,
                   store, task, idx, transcribe_resp, inserted, det_vars>>

\* faulty variant: an Err of the removal in Drop becomes the result of the run
InsertOkUnlessRemovalFails ==
    /\ mode = "run" /\ pc = "Transcribing"
    /\ idx = Len(streams) + 1
    /\ store' = bulk_insert_streams(store, streams)
    /\ inserted' = SubSeq(store', Len(store) + 1, Len(store'))
    /\ calls' = [calls EXCEPT !.insert = @ + 1]
    /\ Drop
    /\ pc' = IF drop_failed' THEN "Failed" ELSE "Done"
    /\ result' = IF drop_failed' THEN "err" ELSE "ok"
    /\ UNCHANGED <<cfg_vars, mode, channel, max_streams, existing, streams, task, idx,
                   transcribe_resp, failed_in, det_vars>>

\* store.bulk_insert_streams(&streams) returns Ok and run returns Ok(())
InsertOk ==
    /\ mode = "run" /\ pc = "Transcribing"
    /\ idx = Len(streams) + 1
    /\ store' = bulk_insert_streams(store, streams)
    /\ inserted' = SubSeq(store', Len(store) + 1, Len(store'))
    /\ calls' = [calls EXCEPT !.insert = @ + 1]
    /\ pc' = "Done"
    /\ result' = "ok"
    /\ Drop
    /\ UNCHANGED <<cfg_vars, mode, channel, max_streams, existing, streams, task, idx,
                   transcribe_resp, failed_in, det_vars>>

\* store.bulk_insert_streams returns Err: the statement added no row
InsertFail ==
    /\ mode = "run" /\ pc = "Transcribing"
    /\ idx = Len(streams) + 1
    /\ calls' = [calls EXCEPT !.insert = @ + 1]
    /\ Fail("insert")
    /\ UNCHANGED <<cfg_vars, mode, channel, max_streams, existing, streams,
                   store, task, idx, transcribe_resp, inserted, det_vars>>

\* the scheduler builds a new processor for the next tick
NewRun ==
    /\ mode = "run" /\ pc \in {"Done", "Failed"}
    /\ pc' = "Idle"
    /\ existing' = {} /\ streams' = <<>>
    /\ task' = <<>> /\ idx' = 0 /\ transcribe_resp' = None
    /\ result' = "none" /\ calls' = NoCalls /\ inserted' = <<>>
    /\ failed_in' = "none"
    /\ drop_failed' = FALSE
    /\ finished' = <<>> /\ stream_audio_paths' = <<>>
    /\ UNCHANGED <<cfg_vars, mode, channel, max_streams, store, audio_dir, au, tr>>

Next ==
    \/ BeginRun \/ ScrapeFail \/ ParseFail \/ Discover
    \/ LookupFail \/ Select
    \/ \E i \in 1..Len(task) : StartAudio(i) \/ AudioOk(i) \/ AudioFail(i)
    \/ CollectOk \/ CollectErr
    \/ TranscribeOk \/ TranscribeFail \/ SummarizeOk \/ SummarizeFail
    \/ InsertOk \/ InsertFail
    \/ NewRun

Spec == Init /\ [][Next]_vars

(* ------------- runs with every collaborator succeeding ---------------- *)
NextDrain ==
    \/ BeginRun \/ Discover \/ Select
    \/ \E i \in 1..Len(task) : StartAudio(i) \/ AudioOk(i)
    \/ CollectOk
    \/ TranscribeOk \/ SummarizeOk
    \/ InsertOk
    \/ NewRun

\* the scheduler keeps ticking and every call returns
SpecDrain == Init /\ [][NextDrain]_vars /\ WF_vars(NextDrain)

(* ---------- runs next to another instance of the pipeline ------------- *)
\* what the loop of run leaves in an item
Processed(s) ==
    [s EXCEPT !.summary_md = Some(SummaryOf(TranscriptOf(trimmed_path(s))))]

\* another processor on the same table commits candidate i
ConcurrentCommit(i) ==
    /\ mode = "run"
    /\ store' = bulk_insert_streams(store, <<Processed(channel[i])>>)
    /\ store' # store
    /\ UNCHANGED <<sel_vars, task, idx, transcribe_resp, result, calls,
                   inserted, failed_in, fs_vars, det_vars>>

NextConc ==
    \/ Next
    \/ \E i \in 1..Len(channel) : ConcurrentCommit(i)

SpecConc == Init /\ [][NextConc]_vars

(* ----------------------- Selection Stage claims ----------------------- *)
\* indices of the candidates whose id the lookup did not return
KeptIdx == {i \in 1..Len(channel) : channel[i].video_id \notin existing}

\* candidate j precedes candidate i in a stable ascending order by timestamp
Precedes(j, i) ==
    LET tj == timestamp_from_time_ago(channel[j])
        ti == timestamp_from_time_ago(channel[i])
    IN  OptionLess(tj, ti) \/ (~OptionLess(ti, tj) /\ j < i)

\* 1-based position of kept candidate i in that order
RankOf(i) == 1 + Cardinality({j \in KeptIdx : Precedes(j, i)})

\* C1: the output of sort_filter_limit_streams is the first max_streams
\* elements of the candidates outside the existing-id set, in stable
\* ascending timestamp order; its length is at most max_streams and |C \ E|.
C1_SelectionIsSortedFilteredPrefix ==
    (mode = "sel" /\ pc = "output") =>
        /\ Len(streams) = Min(max_streams, Cardinality(KeptIdx))
        /\ Len(streams) <= max_streams
        /\ Len(streams) <= Cardinality(KeptIdx)
        /\ \A i \in KeptIdx :
              RankOf(i) <= Len(streams) => streams[RankOf(i)] = channel[i]

\* a selection where the filter, the sort and the cap all changed something
C1_Witness ==
    /\ mode = "sel" /\ pc = "output"
    /\ Len(channel) = 3 /\ max_streams = 1
    /\ channel[1].video_id \in existing
    /\ Cardinality(KeptIdx) = 2
    /\ streams = <<channel[3]>>

IsNoneDate(s) == timestamp_from_time_ago(s) = None
IsKept(s) == s.video_id \notin existing
IsKeptNoneDate(s) == IsKept(s) /\ IsNoneDate(s)

\* C6: items without a timestamp go through the sort: those in the output
\* are a prefix, in input order, of the unfiltered None-timestamp candidates,
\* and all of them are in the output when the cap does not cut the batch.
C6_NoneTimestampKeptStable ==
    (mode = "sel" /\ pc = "output") =>
        LET noneIn  == SelectSeq(channel, IsKeptNoneDate)
            noneOut == SelectSeq(streams, IsNoneDate)
        IN  /\ Len(noneOut) <= Len(noneIn)
            /\ noneOut = SubSeq(noneIn, 1, Len(noneOut))
            /\ max_streams >= Cardinality(KeptIdx) => noneOut = noneIn

\* two distinct None-timestamp items sorted together with a dated one
C6_Witness ==
    /\ mode = "sel" /\ pc = "output"
    /\ Len(streams) = 3
    /\ IsNoneDate(channel[1]) /\ ~IsNoneDate(channel[2]) /\ IsNoneDate(channel[3])
    /\ channel[1].video_id # channel[3].video_id
    /\ streams[1] = channel[1] /\ streams[2] = channel[3]

(* ---------------------------- run claims ------------------------------ *)
StoredIds == {store[k].video_id : k \in 1..Len(store)}
InsertedIds == {inserted[k].video_id : k \in 1..Len(inserted)}
BatchIds == {streams[i].video_id : i \in 1..Len(streams)}
Succeeded == mode = "run" /\ pc = "Done" /\ result = "ok"

\* C2: after a successful run the items it persisted are disjoint from the
\* existing-id set and number exactly min(max_streams, |C \ E|).
C2_PersistedCountIsCap ==
    Succeeded =>
        /\ InsertedIds \cap existing = {}
        /\ Cardinality(InsertedIds) = Min(max_streams, Cardinality(KeptIdx))

\* C3: the table never holds two rows with the same video_id.
C3_AtMostOneRowPerId ==
    \A k, l \in 1..Len(store) : store[k].video_id = store[l].video_id => k = l

\* this run's commit met a row another instance had inserted after Selection
C3_Witness ==
    /\ Succeeded
    /\ Len(streams) = 2
    /\ Len(inserted) = 1
    /\ BatchIds \subseteq StoredIds
    /\ calls.insert = 1

\* C4: a run that returns success has persisted every item it selected.
C4_SuccessPersistsSelection ==
    Succeeded => BatchIds \subseteq InsertedIds

AllPersisted == \A i \in 1..Len(channel) : channel[i].video_id \in StoredIds

\* C5: with max_streams >= 1 and every collaborator succeeding, repeated
\* runs eventually persist every candidate.
C5_BacklogDrains == (max_streams >= 1) => <>AllPersisted

\* C7: every row a run inserted has a summary, and every item summarized
\* in a successful run is persisted.
C7_SummaryIffPersisted ==
    /\ \A k \in 1..Len(inserted) : inserted[k].summary_md # None
    /\ Succeeded =>
          \A i \in 1..Len(streams) :
              streams[i].summary_md # None => streams[i].video_id \in InsertedIds

\* C8: a successful run that selected n items made n acquisitions, n
\* transcription calls, n summarization calls and persisted n items.
C8_CallCountsEqualSelection ==
    Succeeded =>
        /\ Len(streams) = Min(max_streams, Cardinality(KeptIdx))
        /\ calls.download = Len(streams)
        /\ calls.transcribe = Len(streams)
        /\ calls.summarize = Len(streams)
        /\ Len(inserted) = Len(streams)

\* C9: a collaborator failure makes run return an error, and after the
\* failed run every item of its batch found in the table is fully
\* committed: it has its summary and the row carries that summary.
C9_FailureReturnsErrNoPartialCommit ==
    /\ failed_in # "none" => pc = "Failed" /\ result = "err"
    /\ Errored # {} => pc \in {"AcquiringAudio", "Failed"} /\ result # "ok"
    /\ pc = "Failed" =>
          \A i \in 1..Len(streams) : \A k \in 1..Len(store) :
              store[k].video_id = streams[i].video_id =>
                  /\ streams[i].summary_md # None
                  /\ store[k].summary_md = streams[i].summary_md
                  /\ store[k] \in {inserted[j] : j \in 1..Len(inserted)}

\* the summarizer failed on the second item after the first was summarized
C9_Witness ==
    /\ pc = "Failed" /\ result = "err"
    /\ failed_in = "summarize"
    /\ idx = 2
    /\ streams[1].summary_md # None
    /\ streams[1].video_id \notin StoredIds
    /\ Len(store) = 1

StageRank(stage) ==
    CASE stage = "Idle"           -> 0
      [] stage = "Discovering"    -> 1
      [] stage = "Selecting"      -> 2
      [] stage = "AcquiringAudio" -> 3
      [] stage = "Transcribing"   -> 4
      [] stage = "Done"           -> 5
      [] stage = "Failed"         -> 5

\* a step of one run moves to the next stage, to Failed, or (empty batch)
\* from Selecting to Done; only a new run goes back to Idle
StageStep ==
    \/ pc' = pc
    \/ pc \in {"Done", "Failed"} /\ pc' = "Idle"
    \/ pc \notin {"Done", "Failed"} /\ pc' = "Failed" /\ pc # "Idle"
    \/ pc \notin {"Done", "Failed"} /\ pc' # "Failed"
         /\ StageRank(pc') > StageRank(pc)
         /\ (StageRank(pc') = StageRank(pc) + 1
               \/ (pc = "Selecting" /\ pc' = "Done" /\ streams' = <<>>))

\* C10: the stages follow one another in the fixed order and never go back,
\* and no transcription call is made before every item's audio closure has
\* returned.
C10_StageOrder ==
    /\ [][StageStep]_vars
    /\ [](calls.transcribe > 0 => \A i \in 1..Len(task) : task[i] = "ok")
    /\ [](pc \in {"Transcribing", "Done"} /\ streams # <<>> =>
              \A i \in 1..Len(task) : task[i] = "ok")

\* the Audio Stage failed after a sibling closure had finished
C10_Witness ==
    /\ pc = "Failed" /\ failed_in = "audio"
    /\ Len(task) = 2
    /\ task[1] = "ok" /\ task[2] = "err"
    /\ calls.transcribe = 0

(* ------- runs on any page the parser can yield (SpecDup) --------------- *)
\* parse_streams keeps every qualifying node: a page that lists a video
\* twice yields two items with one video_id
InitDup ==
    /\ mode = "run"
    /\ chunking_config = Some(ChunkDurationSeconds)
    /\ parse = NoParse
    /\ channel \in SeqsUpTo(Streams, MaxStreams)
    /\ max_streams \in 0..MaxStreams
    /\ existing = {}
    /\ streams = <<>>
    /\ pc = "Idle"
    /\ store = <<>> /\ task = <<>> /\ idx = 0 /\ transcribe_resp = None
    /\ result = "none" /\ calls = NoCalls /\ inserted = <<>>
    /\ failed_in = "none"
    /\ audio_dir = None /\ drop_failed = FALSE
    /\ au = NoAudio /\ tr = NoTranscribe
    /\ finished = <<>> /\ stream_audio_paths = <<>>

SpecDup == InitDup /\ [][Next]_vars

(* ------- AudioHandler: download and clean_up of one item (SpecAudio) ---- *)
\* faulty variant: the chain begins with the trim
ChainToolsTrimFirst == <<"trim_silence", "denoise_audio", "normalize_volume">>

\* the cleanup chain, in the order of the and_then calls
ChainTools == <<"denoise_audio", "normalize_volume", "trim_silence">>
ChainSuffix == <<"_denoised.mp3", "_normalized.mp3", "_trimmed.mp3">>

\* audio_dl_path.join(format!("{base_name}<suffix>")) for step k of the chain
chain_path(s, audio_dl_path, k) == join(audio_dl_path, <<s.video_id, ChainSuffix[k]>>)

\* the audio_dl_path argument of clean_up: the directory, or, as in run,
\* the path download returned
CleanArg == IF au.arg = "dir" THEN AudioDlPath ELSE au.dl_ret[1]

\* a tool can create a file only directly in the audio directory: a path
\* below the mp3 file has a regular file for parent
Writable(path) == Len(path) = 1

DirFiles(dir) == IF dir = None THEN {} ELSE dir[1]

NewAttempt(s, arg, n, prev, dir) ==
    [pc |-> "start", stream |-> s, arg |-> arg, attempt |-> n,
     at_start |-> DirFiles(dir), tools |-> <<>>, dl_tool |-> "none",
     dl_ret |-> None, step |-> 0, failed |-> 0, ret |-> None, prev_ret |-> prev,
     prev_end |-> "none"]

InitAudio ==
    /\ mode = "audio"
    /\ chunking_config = Some(ChunkDurationSeconds)
    /\ parse = NoParse
    /\ channel = <<>> /\ max_streams = 0 /\ existing = {} /\ streams = <<>>
    /\ pc = "handler"
    /\ store = <<>> /\ task = <<>> /\ idx = 0 /\ transcribe_resp = None
    /\ result = "none" /\ calls = NoCalls /\ inserted = <<>>
    /\ failed_in = "none"
    /\ audio_dir = None /\ drop_failed = FALSE
    /\ tr = NoTranscribe
    /\ finished = <<>> /\ stream_audio_paths = <<>>
    /\ \E s \in Streams, arg \in {"dir", "dl_path"} :
           au = NewAttempt(s, arg, 1, None, None)

AudioFrame == UNCHANGED <<sel_vars, store, task, idx, transcribe_resp, result, calls,
                          inserted, failed_in, drop_failed, tr, par_vars>>

\* download finds the mp3 and returns its path without calling the tool
DownloadSkip ==
    /\ mode = "audio" /\ au.pc = "start"
    /\ exists(audio_dir, audio_mp3_path(au.stream, AudioDlPath))
    /\ au' = [au EXCEPT !.pc = "downloaded",
                        !.dl_ret = Some(audio_mp3_path(au.stream, AudioDlPath))]
    /\ UNCHANGED audio_dir
    /\ AudioFrame

\* download does not find the mp3 and calls yt-dlp
DownloadCall ==
    /\ mode = "audio" /\ au.pc = "start"
    /\ ~exists(audio_dir, audio_mp3_path(au.stream, AudioDlPath))
    /\ au' = [au EXCEPT !.pc = "downloading",
                        !.tools = Append(@, "download_audio")]
    /\ UNCHANGED audio_dir
    /\ AudioFrame

\* faulty variant: the tool's Ok is taken at its word
DownloadToolOkUnchecked(made) ==
    /\ mode = "audio" /\ au.pc = "downloading"
    /\ LET mp3 == audio_mp3_path(au.stream, AudioDlPath)
       IN  /\ audio_dir' = IF made THEN WithFiles(audio_dir, {mp3}) ELSE audio_dir
           /\ au' = [au EXCEPT !.dl_tool = IF made THEN "ok_file" ELSE "ok_nofile",
                               !.pc = "downloaded", !.dl_ret = Some(mp3)]
    /\ AudioFrame

\* yt-dlp returns Ok, having written the mp3 or not; download looks for the
\* file again and bails if it is missing
DownloadToolOk(made) ==
    /\ mode = "audio" /\ au.pc = "downloading"
    /\ LET mp3 == audio_mp3_path(au.stream, AudioDlPath)
       IN  /\ audio_dir' = IF made THEN WithFiles(audio_dir, {mp3}) ELSE audio_dir
           /\ au' = IF exists(audio_dir', mp3)
                    THEN [au EXCEPT !.dl_tool = "ok_file",
                                    !.pc = "downloaded", !.dl_ret = Some(mp3)]
                    ELSE [au EXCEPT !.dl_tool = "ok_nofile", !.pc = "err"]
    /\ AudioFrame

\* yt-dlp returns Err; what it had written of the mp3 may stay
DownloadToolErr ==
    /\ mode = "audio" /\ au.pc = "downloading"
    /\ audio_dir' \in {audio_dir,
                       WithFiles(audio_dir, {audio_mp3_path(au.stream, AudioDlPath)})}
    /\ au' = [au EXCEPT !.dl_tool = "err", !.pc = "err"]
    /\ AudioFrame

\* faulty variant: the chain is run although the trimmed file is there
CleanUpAlways ==
    /\ mode = "audio" /\ au.pc = "downloaded"
    /\ exists(audio_dir, chain_path(au.stream, CleanArg, 3))
    /\ au' = [au EXCEPT !.pc = "cleaning", !.step = 1,
                        !.tools = Append(@, ChainTools[1])]
    /\ UNCHANGED audio_dir
    /\ AudioFrame

\* clean_up finds the trimmed file and returns its path without any tool
CleanUpSkip ==
    /\ mode = "audio" /\ au.pc = "downloaded"
    /\ exists(audio_dir, chain_path(au.stream, CleanArg, 3))
    /\ au' = [au EXCEPT !.pc = "ok",
                        !.ret = Some(chain_path(au.stream, CleanArg, 3))]
    /\ UNCHANGED audio_dir
    /\ AudioFrame

\* clean_up does not find the trimmed file and starts the chain with denoise
CleanUpCall ==
    /\ mode = "audio" /\ au.pc = "downloaded"
    /\ ~exists(audio_dir, chain_path(au.stream, CleanArg, 3))
    /\ au' = [au EXCEPT !.pc = "cleaning", !.step = 1,
                        !.tools = Append(@, ChainTools[1])]
    /\ UNCHANGED audio_dir
    /\ AudioFrame

\* the running tool returns Ok, having written its output or not; and_then
\* calls the next tool, and after trim clean_up returns the trimmed path
CleanToolOk(made) ==
    /\ mode = "audio" /\ au.pc = "cleaning"
    /\ LET out == chain_path(au.stream, CleanArg, au.step)
       IN  audio_dir' = IF made /\ Writable(out)
                        THEN WithFiles(audio_dir, {out}) ELSE audio_dir
    /\ au' = IF au.step < Len(ChainTools)
             THEN [au EXCEPT !.step = @ + 1,
                             !.tools = Append(@, ChainTools[au.step + 1])]
             ELSE [au EXCEPT !.pc = "ok",
                             !.ret = Some(chain_path(au.stream, CleanArg, 3))]
    /\ AudioFrame

\* faulty variant: the chain goes on to the next tool after an Err
CleanToolErrContinues(made) ==
    /\ mode = "audio" /\ au.pc = "cleaning"
    /\ LET out == chain_path(au.stream, CleanArg, au.step)
       IN  audio_dir' = IF made /\ Writable(out)
                        THEN WithFiles(audio_dir, {out}) ELSE audio_dir
    /\ au' = IF au.step < Len(ChainTools)
             THEN [au EXCEPT !.failed = au.step, !.step = @ + 1,
                             !.tools = Append(@, ChainTools[au.step + 1])]
             ELSE [au EXCEPT !.pc = "err", !.failed = au.step]
    /\ AudioFrame

\* the running tool returns Err: `?` returns it, the later tools are not called
CleanToolErr(made) ==
    /\ mode = "audio" /\ au.pc = "cleaning"
    /\ LET out == chain_path(au.stream, CleanArg, au.step)
       IN  audio_dir' = IF made /\ Writable(out)
                        THEN WithFiles(audio_dir, {out}) ELSE audio_dir
    /\ au' = [au EXCEPT !.pc = "err", !.failed = au.step]
    /\ AudioFrame

\* the handler is called for the same item again, by a later run; the
\* directory was removed in between or was not
NextAttempt ==
    /\ mode = "audio" /\ au.pc \in {"ok", "err"}
    /\ au.attempt < MaxAttempts
    /\ audio_dir' \in {audio_dir, None}
    /\ au' = [NewAttempt(au.stream, au.arg, au.attempt + 1,
                         IF au.pc = "ok" THEN au.ret ELSE au.prev_ret, audio_dir')
               EXCEPT !.prev_end = IF au.failed > 0 THEN "chain_err" ELSE au.pc]
    /\ AudioFrame

\* the process is killed while a tool runs; nothing is removed, and the next
\* run calls the handler for the item again
AudioCrash(made) ==
    /\ mode = "audio" /\ au.pc \in {"downloading", "cleaning"}
    /\ au.attempt < MaxAttempts
    /\ LET out == IF au.pc = "downloading"
                  THEN audio_mp3_path(au.stream, AudioDlPath)
                  ELSE chain_path(au.stream, CleanArg, au.step)
       IN  audio_dir' = IF made /\ Writable(out)
                        THEN WithFiles(audio_dir, {out}) ELSE audio_dir
    /\ au' = [NewAttempt(au.stream, au.arg, au.attempt + 1, au.prev_ret, audio_dir')
               EXCEPT !.prev_end = "crash"]
    /\ AudioFrame

NextAudio ==
    \/ DownloadSkip \/ DownloadCall
    \/ \E made \in BOOLEAN : DownloadToolOk(made)
    \/ DownloadToolErr
    \/ CleanUpSkip \/ CleanUpCall
    \/ \E made \in BOOLEAN : CleanToolOk(made) \/ CleanToolErr(made)
    \/ NextAttempt
    \/ \E made \in BOOLEAN : AudioCrash(made)

SpecAudio == InitAudio /\ [][NextAudio]_vars


\* what the backend may answer for one chunk
\* a text is the sequence of its pieces
Texts == {<<"x">>, <<" ", "y">>}
Durations == {450, ChunkDurationSeconds}
Segment(start, end) == [start |-> start, end |-> end]
SegmentLists ==
    {None,
     Some(<<Segment(0, 10), Segment(10, 30)>>),
     Some(<<Segment(0, 5), Segment(5, 9)>>),
     Some(<<Segment(0, 20), Segment(20, 40)>>)}
Responses == [text : Texts, duration : Durations, segments : SegmentLists]

\* workdir.join("audio").join(&stream.video_id)
chunks_dir_path(s) == join(AudioDlPath, <<s.video_id, "">>)

\* chunks_dir_path.join(format!("{base_name}_%03d.mp3")) for chunk number n,
\* base_name being the stem of the trimmed file
chunk_path(s, n) == join(chunks_dir_path(s), <<s.video_id, "_trimmed_", n>>)

\* the entries of the chunk directory
ChunkFiles(dir, s) ==
    {p \in DirFiles(dir) : Len(p) = 2 /\ p[1] = chunks_dir_path(s)[1]}

\* read_dir(..).map(|mut entries| entries.any(|e| e.is_ok())).unwrap_or(false)
chunks_exist(dir, s) == ChunkFiles(dir, s) # {}

\* the orders in which read_dir may list a set of entries
Listings(S) ==
    {q \in [1..Cardinality(S) -> S] : \A i, j \in 1..Cardinality(S) : q[i] = q[j] => i = j}

\* the number in a chunk's file name; it is zero-padded to three digits, so
\* the order of the names is the order of the numbers
ChunkNo(p) == p[2][3]

RECURSIVE insert_chunk(_, _)
insert_chunk(sorted, p) ==
    IF sorted = <<>> THEN <<p>>
    ELSE IF ChunkNo(p) < ChunkNo(Head(sorted)) THEN <<p>> \o sorted
    ELSE <<Head(sorted)>> \o insert_chunk(Tail(sorted), p)

\* faulty variant: the listing is used in the order read_dir gave it
unsorted_chunks(listing) == listing

\* chunks.sort()
RECURSIVE sort_chunks(_)
sort_chunks(listing) ==
    IF listing = <<>> THEN <<>>
    ELSE insert_chunk(sort_chunks(SubSeq(listing, 1, Len(listing) - 1)),
                      listing[Len(listing)])

\* run's second parameter; the builder's chunking_config is what a caller
\* holding a built processor has to pass for it (builder.rs:127-132 sets the
\* config, the binaries build with with_chunking and call run)
should_chunk == chunking_config # None

\* the AudioInput run hands to transcribe: Chunked with the literal 900, or
\* File (which has no duration: 0 stands for the absent field)
audio_input(chunk) ==
    IF chunk THEN [kind |-> "Chunked", chunk_duration_seconds |-> ChunkDurationSeconds]
    ELSE [kind |-> "File", chunk_duration_seconds |-> 0]

\* no AudioInput has been handed over yet
NoInput == [kind |-> "none", chunk_duration_seconds |-> 0]

\* tr at the entry of transcribe
EnterTranscribe(total, attempt) ==
    [pc |-> "idle", total |-> total, input |-> NoInput, dur |-> 0,
     attempt |-> attempt, split_calls |-> 0,
     chunks |-> <<>>, ci |-> 0, in_flight |-> 0,
     requests |-> <<>>, responses |-> <<>>,
     all_segments |-> <<>>, all_text |-> <<>>, time_offset |-> 0,
     duration |-> 0, previous_text |-> None, failed_chunk |-> 0, ret |-> None]

\* the run has one selected item whose audio work is done; the loop is
\* about to hand it to the transcriber
InitChunk ==
    /\ mode = "run"
    /\ chunking_config \in ChunkingConfigs
    /\ parse = NoParse
    /\ channel = <<Stream("a", "1 day ago")>>
    /\ max_streams = 1
    /\ existing = {}
    /\ streams = channel
    /\ pc = "Transcribing"
    /\ store = <<>> /\ task = <<"ok">> /\ idx = 1 /\ transcribe_resp = None
    /\ result = "none" /\ calls = [NoCalls EXCEPT !.download = 1] /\ inserted = <<>>
    /\ failed_in = "none"
    /\ audio_dir = Some({audio_mp3_path(channel[1], AudioDlPath)})
    /\ drop_failed = FALSE
    /\ au = NoAudio
    /\ finished = <<ClosureResult(channel, 1)>> /\ stream_audio_paths = finished
    /\ \E total \in 1..MaxChunks : tr = EnterTranscribe(total, 1)

\* seg.start += time_offset; seg.end += time_offset, for each segment
shift_segments(segments, time_offset) ==
    [k \in 1..Len(segments) |->
        Segment(segments[k].start + time_offset, segments[k].end + time_offset)]

\* faulty variant: the offset advances by the duration the backend reported
time_offset_by_reported(time_offset, chunk_duration_seconds, response) ==
    time_offset + response.duration

\* time_offset += chunk_duration_seconds as f64
next_time_offset(time_offset, chunk_duration_seconds, response) ==
    time_offset + chunk_duration_seconds

\* faulty variant: the hint is everything transcribed so far
previous_text_accumulated(response, all_text) == Some(all_text)

\* previous_text = Some(response.text)
next_previous_text(response, all_text) == Some(response.text)

\* str::trim on the pieces of the assembled text
RECURSIVE trim(_)
trim(text) ==
    IF text = <<>> THEN <<>>
    ELSE IF Head(text) = " " THEN trim(Tail(text))
    ELSE IF text[Len(text)] = " " THEN trim(SubSeq(text, 1, Len(text) - 1))
    ELSE text

\* send_transcribe_request(chunk, model, previous_text) is called for chunk k
IssueRequest(t, k) ==
    [t EXCEPT !.pc = "request", !.ci = k, !.in_flight = @ + 1,
              !.requests = Append(@, [chunk |-> t.chunks[k], prompt |-> t.previous_text])]

\* Ok(TranscribeResponse { duration, text: all_text.trim(), segments })
ReturnOk(t) ==
    [t EXCEPT !.pc = "ok",
              !.ret = Some([duration |-> t.duration, text |-> trim(t.all_text),
                            segments |-> Some(t.all_segments)])]

\* the chunk files are collected and sorted, and the loop starts
StartLoop(t, chunks) ==
    LET t1 == [t EXCEPT !.chunks = chunks]
    IN  IF chunks = <<>> THEN ReturnOk(t1) ELSE IssueRequest(t1, 1)

\* faulty variant: the texts are appended without the separating space
AccumulateNoSeparator(t, response) ==
    LET text == t.all_text \o response.text
    IN  [t EXCEPT !.in_flight = @ - 1,
                  !.responses = Append(@, response),
                  !.duration = @ + response.duration,
                  !.all_segments = @ \o (IF response.segments = None THEN <<>>
                                         ELSE shift_segments(response.segments[1],
                                                             t.time_offset)),
                  !.all_text = text,
                  !.previous_text = next_previous_text(response, text),
                  !.time_offset = next_time_offset(@, t.dur, response)]

\* one pass of the loop body on a response
Accumulate(t, response) ==
    LET text == t.all_text \o response.text \o <<" ">>
    IN  [t EXCEPT !.in_flight = @ - 1,
                  !.responses = Append(@, response),
                  !.duration = @ + response.duration,
                  !.all_segments = @ \o (IF response.segments = None THEN <<>>
                                         ELSE shift_segments(response.segments[1],
                                                             t.time_offset)),
                  !.all_text = text,
                  !.previous_text = next_previous_text(response, text),
                  !.time_offset = next_time_offset(@, t.dur, response)]

\* transcribe binds its argument: chunk_duration_seconds of a Chunked input
TranscribeCall(t, input) ==
    [t EXCEPT !.input = input, !.dur = input.chunk_duration_seconds]

ChunkFrame == UNCHANGED <<sel_vars, store, task, idx, result, inserted, failed_in,
                          drop_failed, au, par_vars>>

\* faulty variant: the audio is split although the chunk directory has entries
TranscribeReuseSplitsAgain ==
    /\ mode = "run" /\ pc = "Transcribing"
    /\ idx <= Len(streams) /\ transcribe_resp = None
    /\ tr.pc = "idle"
    /\ audio_input(should_chunk).kind = "Chunked"
    /\ chunks_exist(audio_dir, streams[idx])
    /\ tr' = [TranscribeCall(tr, audio_input(should_chunk))
               EXCEPT !.pc = "splitting", !.split_calls = @ + 1]
    /\ calls' = [calls EXCEPT !.transcribe = @ + 1]
    /\ UNCHANGED <<audio_dir, transcribe_resp>>
    /\ ChunkFrame

\* run calls transcribe with a Chunked input; the chunk directory has
\* entries, so they are taken as the chunks
TranscribeReuseChunks ==
    /\ mode = "run" /\ pc = "Transcribing"
    /\ idx <= Len(streams) /\ transcribe_resp = None
    /\ tr.pc = "idle"
    /\ audio_input(should_chunk).kind = "Chunked"
    /\ chunks_exist(audio_dir, streams[idx])
    /\ \E listing \in Listings(ChunkFiles(audio_dir, streams[idx])) :
           tr' = StartLoop(TranscribeCall(tr, audio_input(should_chunk)),
                           sort_chunks(listing))
    /\ calls' = [calls EXCEPT !.transcribe = @ + 1]
    /\ UNCHANGED <<audio_dir, transcribe_resp>>
    /\ ChunkFrame

\* run calls transcribe with a Chunked input; the chunk directory is empty
\* or missing: it is created and the split tool is started
TranscribeSplitCall ==
    /\ mode = "run" /\ pc = "Transcribing"
    /\ idx <= Len(streams) /\ transcribe_resp = None
    /\ tr.pc = "idle"
    /\ audio_input(should_chunk).kind = "Chunked"
    /\ ~chunks_exist(audio_dir, streams[idx])
    /\ tr' = [TranscribeCall(tr, audio_input(should_chunk))
               EXCEPT !.pc = "splitting", !.split_calls = @ + 1]
    /\ audio_dir' = WithFiles(audio_dir, {})
    /\ calls' = [calls EXCEPT !.transcribe = @ + 1]
    /\ UNCHANGED transcribe_resp
    /\ ChunkFrame

\* run calls transcribe with a File input: the match's other arm returns
\* OpenAIError::UnsupportedInput before any request is built
TranscribeUnsupportedInput ==
    /\ mode = "run" /\ pc = "Transcribing"
    /\ idx <= Len(streams) /\ transcribe_resp = None
    /\ tr.pc = "idle"
    /\ audio_input(should_chunk).kind # "Chunked"
    /\ tr' = [TranscribeCall(tr, audio_input(should_chunk)) EXCEPT !.pc = "err"]
    /\ calls' = [calls EXCEPT !.transcribe = @ + 1]
    /\ UNCHANGED <<audio_dir, transcribe_resp>>
    /\ ChunkFrame

\* split_audio_to_chunks returns Ok: every chunk of the audio is written
SplitOk ==
    /\ mode = "run" /\ tr.pc = "splitting"
    /\ audio_dir' = WithFiles(audio_dir,
                              {chunk_path(streams[idx], n) : n \in 0..tr.total - 1})
    /\ \E listing \in Listings(ChunkFiles(audio_dir', streams[idx])) :
           tr' = StartLoop(tr, sort_chunks(listing))
    /\ UNCHANGED <<transcribe_resp, calls>>
    /\ ChunkFrame

\* split_audio_to_chunks returns Err after writing the first k chunks:
\* transcribe returns OpenAIError::Ffmpeg
SplitErr(k) ==
    /\ mode = "run" /\ tr.pc = "splitting"
    /\ audio_dir' = WithFiles(audio_dir, {chunk_path(streams[idx], n) : n \in 0..k - 1})
    /\ tr' = [tr EXCEPT !.pc = "err"]
    /\ UNCHANGED <<transcribe_resp, calls>>
    /\ ChunkFrame

\* the backend answers the request in flight: the loop body runs, and the
\* next chunk's request is sent or, after the last chunk, transcribe returns
ChunkResponseOk(response) ==
    /\ mode = "run" /\ tr.pc = "request"
    /\ LET t1 == Accumulate(tr, response)
       IN  tr' = IF tr.ci < Len(tr.chunks)
                 THEN IssueRequest(t1, tr.ci + 1) ELSE ReturnOk(t1)
    /\ UNCHANGED <<audio_dir, transcribe_resp, calls>>
    /\ ChunkFrame

\* faulty variant: a failed chunk is left out and the loop goes on
ChunkResponseErrSkipped ==
    /\ mode = "run" /\ tr.pc = "request"
    /\ LET t1 == [tr EXCEPT !.in_flight = @ - 1, !.failed_chunk = tr.ci]
       IN  tr' = IF tr.ci < Len(tr.chunks)
                 THEN IssueRequest(t1, tr.ci + 1) ELSE ReturnOk(t1)
    /\ UNCHANGED <<audio_dir, transcribe_resp, calls>>
    /\ ChunkFrame

\* the request in flight fails: `?` makes transcribe return the error
ChunkResponseErr ==
    /\ mode = "run" /\ tr.pc = "request"
    /\ tr' = [tr EXCEPT !.pc = "err", !.in_flight = @ - 1, !.failed_chunk = tr.ci]
    /\ UNCHANGED <<audio_dir, transcribe_resp, calls>>
    /\ ChunkFrame

\* transcribe has returned Ok: run keeps the text for the summarizer, and
\* the locals of transcribe are gone
TranscribeReturnOk ==
    /\ mode = "run" /\ pc = "Transcribing"
    /\ tr.pc = "ok" /\ transcribe_resp = None /\ idx <= Len(streams)
    /\ transcribe_resp' = Some(tr.ret[1].text)
    /\ tr' = [EnterTranscribe(tr.total, tr.attempt) EXCEPT !.pc = "returned"]
    /\ UNCHANGED <<audio_dir, calls>>
    /\ ChunkFrame

\* transcribe has returned Err: map_err and `?` make run return it
TranscribeReturnErr ==
    /\ mode = "run" /\ pc = "Transcribing"
    /\ tr.pc = "err"
    /\ Fail("transcribe")
    /\ tr' = [tr EXCEPT !.pc = "failed"]
    /\ UNCHANGED <<cfg_vars, mode, channel, max_streams, existing, streams,
                   store, task, idx, transcribe_resp, calls, inserted, au, par_vars>>

\* the process is killed during the split, after k chunks were written, or
\* while a request is in flight; nothing is removed. The next process
\* selects the item again, finds its mp3 and calls transcribe again.
ChunkCrash(k) ==
    /\ mode = "run" /\ pc = "Transcribing"
    /\ tr.pc \in {"splitting", "request"}
    /\ tr.attempt <= MaxCrashes
    /\ audio_dir' = IF tr.pc = "splitting"
                    THEN WithFiles(audio_dir,
                                   {chunk_path(streams[idx], n) : n \in 0..k - 1})
                    ELSE audio_dir
    /\ tr' = EnterTranscribe(tr.total, tr.attempt + 1)
    /\ calls' = [NoCalls EXCEPT !.download = 1]
    /\ UNCHANGED transcribe_resp
    /\ ChunkFrame

NextChunk ==
    \/ TranscribeReuseChunks \/ TranscribeSplitCall
    \/ TranscribeUnsupportedInput
    \/ SplitOk
    \/ \E k \in 0..tr.total : SplitErr(k) \/ ChunkCrash(k)
    \/ \E response \in Responses : ChunkResponseOk(response)
    \/ ChunkResponseErr
    \/ TranscribeReturnOk \/ TranscribeReturnErr
    \/ SummarizeOk \/ SummarizeFail
    \/ InsertOk \/ InsertFail

SpecChunk == InitChunk /\ [][NextChunk]_vars

(* ------------------ the channel-page parser (parser.rs) --------------- *)
\* Result<T, Error>
Ok(v) == [tag |-> "Ok", v |-> v]
Err(e) == [tag |-> "Err", e |-> e]

\* a duration text is held as the pieces split(':') yields. A piece is a run
\* of decimal digits, with its value, or a piece u64's from_str rejects: the
\* empty piece (as in "12:" or "1::3") or one with a letter (as in "1:xx:03")
Num(n) == [kind |-> "num", value |-> n]
EmptyPiece == [kind |-> "empty", value |-> 0]
AlphaPiece == [kind |-> "alpha", value |-> 0]
PieceValues == {1, 2, 3, 12, 34}
Pieces == {Num(n) : n \in PieceValues} \cup {EmptyPiece, AlphaPiece}
DurationStrs == SeqsUpTo(Pieces, MaxPieces) \ {<<>>}

\* p.parse::<u64>().ok()
parse_u64(p) == IF p.kind = "num" THEN Some(p.value) ELSE None

\* filter_map(|p| p.parse::<u64>().ok()): the pieces that parse, in order;
\* a piece that does not parse is left out
RECURSIVE filter_map_parse(_)
filter_map_parse(pieces) ==
    IF pieces = <<>> THEN <<>>
    ELSE parse_u64(Head(pieces)) \o filter_map_parse(Tail(pieces))

\* duration_str.split(':').filter_map(|p| p.parse::<u64>().ok()).collect()
\* and the match on the number of parts that are left
parse_duration_to_seconds(duration_str) ==
    LET parts == filter_map_parse(duration_str)
    IN  CASE Len(parts) = 3 -> Some(parts[1] * 3600 + parts[2] * 60 + parts[3])
          [] Len(parts) = 2 -> Some(parts[1] * 60 + parts[2])
          [] Len(parts) = 1 -> Some(parts[1])
          [] OTHER -> None

(* serde_json::Value at the places parse_streams looks at *)
JsonNull == [json |-> "null"]
JsonString == [json |-> "string"]
JsonArray(items) == [json |-> "array", items |-> items]

\* Value::get(index): the element of an array, None for any other value
get(value, index) ==
    IF value.json = "array" /\ index + 1 <= Len(value.items)
    THEN Some(value.items[index + 1]) ELSE None

\* Value::as_array
as_array(value) == IF value.json = "array" THEN Some(value.items) ELSE None

\* a tab; contents is the value at
\* ["tabRenderer"]["content"]["richGridRenderer"]["contents"], Null when a
\* key of that path is absent
Tab(contents) == [contents |-> contents]
\* ytInitialData; tabs is the value at
\* ["contents"]["twoColumnBrowseResultsRenderer"]["tabs"]
Page(tabs) == [tabs |-> tabs]

\* a videoRenderer object as types::VideoRenderer holds it
VideoRenderer(video_id, upcoming, view_count, published, runs, length) ==
    [kind |-> "videoRenderer", video_id |-> video_id,
     upcoming_event_data |-> upcoming,
     view_count_text |-> view_count,
     published_time_text |-> published,
     title |-> [runs |-> runs], length_text |-> length]

\* an item without a videoRenderer object (a continuation item, an ad slot)
OtherItem == [kind |-> "other"]
\* an item whose videoRenderer object serde cannot turn into a VideoRenderer
BadItem == [kind |-> "undeserializable"]

\* lengthText values: 9:59, 10:00 and a text without digits
NodeDurations == {<<Num(9), Num(59)>>, <<Num(10), Num(0)>>, <<AlphaPiece>>}

\* upcomingEventData, viewCountText and publishedTimeText of a renderer: all
\* as a finished stream has them, or one of the three the other way
NodeFlags ==
    {<<None, Some("1K views"), Some("1 day ago")>>,
     <<Some("upcoming"), Some("1K views"), Some("1 day ago")>>,
     <<None, None, Some("1 day ago")>>,
     <<None, Some("1K views"), None>>}

\* the items a page is drawn from; video_id is set from the position
NodeShapes ==
    {VideoRenderer(0, f[1], f[2], f[3], r, l) :
        f \in NodeFlags, r \in {<<>>, <<"title">>},
        l \in {None} \cup {Some(d) : d \in NodeDurations}}
    \cup {OtherItem, BadItem}

WithId(item, i) ==
    IF item.kind = "videoRenderer" THEN [item EXCEPT !.video_id = i] ELSE item

ItemLists ==
    {[i \in 1..Len(s) |-> WithId(s[i], i)] : s \in SeqsUpTo(NodeShapes, MaxNodes)}

\* two tabs that precede the streams tab
HomeTab == Tab(JsonNull)

Pages ==
    {Page(JsonNull), Page(JsonString)}
    \cup {Page(JsonArray([i \in 1..n |-> HomeTab])) : n \in 0..2}
    \cup {Page(JsonArray(<<HomeTab, HomeTab, Tab(c)>>)) :
            c \in {JsonNull, JsonString} \cup {JsonArray(items) : items \in ItemLists}}

\* Option<String>::unwrap_or_default, reached through ok_or(..)
unwrap_or_default(option) == IF option = None THEN "" ELSE option[1]

\* faulty variant: a videoRenderer without a title run gets the empty title
try_from_default_title(video_renderer) ==
    IF video_renderer.length_text = None THEN Err("ParseError: lengthText")
    ELSE Ok([video_id |-> video_renderer.video_id,
             title |-> IF video_renderer.title.runs = <<>> THEN ""
                       ELSE video_renderer.title.runs[1],
             view_count |-> unwrap_or_default(video_renderer.view_count_text),
             streamed_date |-> unwrap_or_default(video_renderer.published_time_text),
             duration |-> video_renderer.length_text[1]])

\* TryFrom<VideoRenderer> for Stream
try_from(video_renderer) ==
    IF video_renderer.title.runs = <<>> THEN Err("ParseError: title")
    ELSE IF video_renderer.length_text = None THEN Err("ParseError: lengthText")
    ELSE Ok([video_id |-> video_renderer.video_id,
             title |-> video_renderer.title.runs[1],
             view_count |-> unwrap_or_default(video_renderer.view_count_text),
             streamed_date |-> unwrap_or_default(video_renderer.published_time_text),
             duration |-> video_renderer.length_text[1]])

\* the loop body passed on to the next item without pushing a stream
Skip == [tag |-> "Skip"]

\* faulty variant: the renderer is converted before the upcoming, view-count
\* and published-time checks
parse_item_convert_first(item) ==
    IF item.kind = "other" THEN Skip
    ELSE IF item.kind = "undeserializable" THEN Err("serde_json::Error")
    ELSE LET stream == try_from(item)
         IN  IF stream.tag = "Err" THEN stream
             ELSE IF \/ item.upcoming_event_data # None
                     \/ item.view_count_text = None
                     \/ item.published_time_text = None
                  THEN Skip
             ELSE LET duration_secs == parse_duration_to_seconds(stream.v.duration)
                  IN  IF duration_secs = None THEN Skip
                      ELSE IF duration_secs[1] < 600 THEN Skip
                      ELSE stream

\* the body of `for item in contents`: Skip for an item without a
\* videoRenderer object and for each `continue`, Err where `?` returns, and
\* Ok(stream) where the stream is pushed
parse_item(item) ==
    IF item.kind = "other" THEN Skip
    ELSE IF item.kind = "undeserializable" THEN Err("serde_json::Error")
    ELSE IF \/ item.upcoming_event_data # None
            \/ item.view_count_text = None
            \/ item.published_time_text = None
         THEN Skip
    ELSE LET stream == try_from(item)
         IN  IF stream.tag = "Err" THEN stream
             ELSE LET duration_secs == parse_duration_to_seconds(stream.v.duration)
                  IN  IF duration_secs = None THEN Skip
                      ELSE IF duration_secs[1] < 600 THEN Skip
                      ELSE stream

\* the loop over contents, with the streams pushed so far
RECURSIVE parse_items(_, _)
parse_items(contents, pushed) ==
    IF contents = <<>> THEN Ok(pushed)
    ELSE LET r == parse_item(Head(contents))
         IN  CASE r.tag = "Err" -> r
               [] r.tag = "Skip" -> parse_items(Tail(contents), pushed)
               [] OTHER -> parse_items(Tail(contents), Append(pushed, r.v))

\* faulty variant: a page without the list of items yields no streams
parse_streams_lenient(json) ==
    LET tab == get(json.tabs, 2)
    IN  IF tab = None THEN Ok(<<>>)
        ELSE LET contents == as_array(tab[1].contents)
             IN  IF contents = None THEN Ok(<<>>)
                 ELSE parse_items(contents[1], <<>>)

\* parse_streams
parse_streams(json) ==
    LET tab == get(json.tabs, 2)
    IN  IF tab = None THEN Err("ParseError: tabs[2]")
        ELSE LET contents == as_array(tab[1].contents)
             IN  IF contents = None THEN Err("ParseError: contents")
                 ELSE parse_items(contents[1], <<>>)

(* YtHtmlDocument::to_json. A document is held as the sequence of the pieces *)
(* YT_INTIALDATA_RE tells apart; white space between them is left out.       *)
Open == [t |-> "open"]      \* <script ...>
VarEq == [t |-> "var"]      \* var ytInitialData =
Semi == [t |-> "semi"]      \* ;
Close == [t |-> "close"]    \* </script>
Text == [t |-> "text"]      \* any other text; it holds none of the above
\* a text from { to }: json is the value it parses to, None when it is not
\* valid JSON; cut says that a string inside it holds "};</script>"
Blob(json, cut) == [t |-> "blob", json |-> json, cut |-> cut]

Blobs == {Blob(Some("first"), FALSE), Blob(Some("second"), FALSE),
          Blob(None, FALSE), Blob(Some("first"), TRUE)}

BlockShapes ==
    {<<Text>>, <<Open, Text, Close>>}
    \cup {<<Open, VarEq, b, Semi, Close>> : b \in Blobs}
    \cup {<<Open, VarEq, Blob(Some("first"), FALSE), Close>>,
          <<Open, Text, VarEq, Blob(Some("first"), FALSE), Semi, Close>>,
          <<Open, VarEq, Blob(Some("first"), FALSE), Semi, Text, Close>>}

RECURSIVE Flatten(_)
Flatten(blocks) == IF blocks = <<>> THEN <<>> ELSE Head(blocks) \o Flatten(Tail(blocks))

Documents == {Flatten(blocks) : blocks \in SeqsUpTo(BlockShapes, MaxBlocks)}

Least(S) == CHOOSE x \in S : \A y \in S : x <= y

\* <script[^>]*>\s*var\s+ytInitialData\s*=\s*(\{ can match from piece i on
MatchStart(doc, i) ==
    /\ i + 2 <= Len(doc)
    /\ doc[i].t = "open" /\ doc[i + 1].t = "var" /\ doc[i + 2].t = "blob"

\* .*?\});\s*</script> can end in piece k: } ; </script> follow each other
\* there, inside a string of the blob or after it
MatchEnd(doc, k) ==
    /\ doc[k].t = "blob"
    /\ \/ doc[k].cut
       \/ k + 2 <= Len(doc) /\ doc[k + 1].t = "semi" /\ doc[k + 2].t = "close"

MatchEnds(doc, i) == {k \in i + 2..Len(doc) : MatchEnd(doc, k)}

\* the starts of all matches, and group 1 of the match that starts at i: the
\* pieces from the blob to the nearest end (.*? is lazy), the last one cut
\* short when the end lies inside it
Matches(doc) == {i \in 1..Len(doc) : MatchStart(doc, i) /\ MatchEnds(doc, i) # {}}
Group1(doc, i) ==
    LET k == Least(MatchEnds(doc, i))
    IN  [pieces |-> SubSeq(doc, i + 2, k), cut |-> doc[k].cut]

\* YT_INTIALDATA_RE.captures(self).and_then(|cap| cap.get(1)): the leftmost match
captures(doc) ==
    IF Matches(doc) = {} THEN None ELSE Some(Group1(doc, Least(Matches(doc))))

\* serde_json::from_str(m.as_str()).ok()
from_str(m) ==
    IF Len(m.pieces) = 1 /\ ~m.cut THEN m.pieces[1].json ELSE None

\* faulty variant: the first match whose group parses is taken
to_json_first_valid(doc) ==
    LET valid == {i \in Matches(doc) : from_str(Group1(doc, i)) # None}
    IN  IF valid = {} THEN Err("ParseError")
        ELSE Ok(from_str(Group1(doc, Least(valid)))[1])

\* YtHtmlDocument::to_json
to_json(doc) ==
    LET cap == captures(doc)
    IN  IF cap = None THEN Err("ParseError")
        ELSE IF from_str(cap[1]) = None THEN Err("ParseError")
        ELSE Ok(from_str(cap[1])[1])

(* ---- the parser's functions applied to drawn inputs (SpecParser) ----- *)
Called(fn, arg) == [fn |-> fn, arg |-> arg, pc |-> "called", ret |-> None]

InitParser ==
    /\ mode = "parser"
    /\ chunking_config = Some(ChunkDurationSeconds)
    /\ parse \in {Called("parse_streams", json) : json \in Pages}
             \cup {Called("parse_duration_to_seconds", d) : d \in DurationStrs}
             \cup {Called("to_json", doc) : doc \in Documents}
    /\ channel = <<>> /\ max_streams = 0 /\ existing = {} /\ streams = <<>>
    /\ pc = "parser"
    /\ store = <<>> /\ task = <<>> /\ idx = 0 /\ transcribe_resp = None
    /\ result = "none" /\ calls = NoCalls /\ inserted = <<>>
    /\ failed_in = "none"
    /\ audio_dir = None /\ drop_failed = FALSE
    /\ au = NoAudio /\ tr = NoTranscribe
    /\ finished = <<>> /\ stream_audio_paths = <<>>

ParserFrame == UNCHANGED <<mode, channel, max_streams, existing, streams, pc,
                           chunking_config, run_vars>>

Return(value) ==
    /\ parse' = [parse EXCEPT !.pc = "returned", !.ret = Some(value)]
    /\ ParserFrame

ParseStreams ==
    /\ mode = "parser" /\ parse.fn = "parse_streams" /\ parse.pc = "called"
    /\ Return(parse_streams(parse.arg))

ParseDurationToSeconds ==
    /\ mode = "parser" /\ parse.fn = "parse_duration_to_seconds" /\ parse.pc = "called"
    /\ Return(parse_duration_to_seconds(parse.arg))

ToJson ==
    /\ mode = "parser" /\ parse.fn = "to_json" /\ parse.pc = "called"
    /\ Return(to_json(parse.arg))

NextParser == ParseStreams \/ ParseDurationToSeconds \/ ToJson

SpecParser == InitParser /\ [][NextParser]_vars

(* ------------------------- teardown (C11) ----------------------------- *)
Ended == mode = "run" /\ pc \in {"Done", "Failed"}

\* C11, as stated: when the run has ended, in Done or in Failed and on every
\* exit path, the audio directory of the working area and all its contents
\* no longer exist.
C11_WorkdirGoneAtEnd == Ended => audio_dir = None

\* C11, amended: when the run has ended, on every exit path, the audio
\* directory no longer exists unless remove_dir_all returned an error, which
\* is logged and leaves the directory in place.
C11_WorkdirGoneUnlessRemovalFailed == Ended => (audio_dir = None \/ drop_failed)

\* a run that wrote audio files failed in transcription and left no directory
C11_Witness ==
    /\ Ended /\ pc = "Failed" /\ failed_in = "transcribe"
    /\ Len(task) = 2
    /\ audio_dir = None /\ ~drop_failed

(* ------------------ fail-fast of the Audio Stage (C12) ---------------- *)
\* C12: if any item's download or clean-up closure failed, no transcribe,
\* summarize or insert call is made for any item of the run, and the run
\* returns the audio error.
C12_AudioFailureStopsRun ==
    (mode = "run" /\ Errored # {}) =>
        /\ calls.transcribe = 0 /\ calls.summarize = 0 /\ calls.insert = 0
        /\ inserted = <<>>
        /\ pc \in {"AcquiringAudio", "Failed"}
        /\ (pc = "Failed" => result = "err" /\ failed_in = "audio")

\* the run failed although a sibling's audio work had succeeded
C12_Witness ==
    /\ pc = "Failed" /\ failed_in = "audio"
    /\ \E i, j \in 1..Len(task) : i < j /\ task[i] = "err" /\ task[j] = "ok"
    /\ calls.download = 2

(* --------------- idempotence of the Audio Stage (C13) ----------------- *)
\* the attempt began with the item's mp3 and its trimmed file both present
ArtifactsPresentAtStart ==
    /\ mode = "audio"
    /\ audio_mp3_path(au.stream, AudioDlPath) \in au.at_start
    /\ \E p \in au.at_start :
           p = chain_path(au.stream, IF au.arg = "dir" THEN AudioDlPath
                                     ELSE audio_mp3_path(au.stream, AudioDlPath), 3)

\* C13: when the item's mp3 and its trimmed file are both present, download
\* and clean_up invoke no download, denoise, normalize or trim tool, do not
\* fail, and return the same trimmed path as before.
C13_NoToolWhenArtifactsPresent ==
    ArtifactsPresentAtStart =>
        /\ au.tools = <<>>
        /\ au.pc \in {"start", "downloaded", "ok"}
        /\ (au.pc = "ok" =>
               /\ au.ret = Some(chain_path(au.stream, AudioDlPath, 3))
               /\ (au.prev_ret # None => au.ret = au.prev_ret))

\* a second call on an item whose first call ran the tools returned at once
C13_Witness ==
    /\ ArtifactsPresentAtStart
    /\ au.attempt = 2 /\ au.pc = "ok" /\ au.prev_ret # None
    /\ au.tools = <<>>

(* ------------- the mp3 must exist after the download (C15) ------------ *)
\* C15: download never returns Ok without the mp3: while the path it
\* returned is in use the file exists, and when yt-dlp returned Ok without
\* producing the file download has returned an error.
C15_NoSuccessWithoutFile ==
    mode = "audio" =>
        /\ (au.dl_ret # None => exists(audio_dir, au.dl_ret[1]))
        /\ (au.dl_tool = "ok_nofile" => au.pc = "err" /\ au.dl_ret = None /\ au.ret = None)

\* yt-dlp reported success, the mp3 is not there, and download failed
C15_Witness ==
    /\ mode = "audio" /\ au.dl_tool = "ok_nofile" /\ au.pc = "err"
    /\ ~exists(audio_dir, audio_mp3_path(au.stream, AudioDlPath))
    /\ au.tools = <<"download_audio">>

(* ------------- items own their files in the Audio Stage (C16) --------- *)
\* the paths the closure of item s reads or writes: download_audio's mp3 and
\* the three paths process_audio builds from the path it is handed
ArtifactPaths(s) ==
    LET mp3 == audio_mp3_path(s, AudioDlPath)
    IN  {<<"download", mp3>>} \cup {<<"clean", chain_path(s, mp3, k)>> : k \in 1..3}

\* C16: no two item closures that run at the same time in the parallel map
\* read or write the same artifact path, for every batch the selection can
\* produce.
C16_RunningTasksOwnTheirPaths ==
    mode = "run" =>
        \A i, j \in Running :
            i # j => ArtifactPaths(streams[i]) \cap ArtifactPaths(streams[j]) = {}

(* ----------------- re-running after a crash (C14) --------------------- *)
\* the chunks of the item's audio, as an uninterrupted run lists them
AllChunks == [k \in 1..tr.total |-> chunk_path(streams[1], k - 1)]

\* C14: a run that follows a crash during the item's chunk work transcribes
\* the same chunks as an uninterrupted run: a partly written chunk set is
\* never taken for the complete one.
C14_RerunTranscribesEveryChunk ==
    (mode = "run" /\ tr.pc \in {"request", "ok"}) => tr.chunks = AllChunks

(* ------------------ one chunk at a time, in order (C17) --------------- *)
\* C17: the chunks are requested in file-name order, the request for a chunk
\* is sent only after the answer for the one before it has arrived, and at
\* most one request is in flight.
C17_SequentialInNameOrder ==
    (mode = "run" /\ tr.pc # "none") =>
        /\ tr.in_flight <= 1
        /\ Len(tr.requests) <= Len(tr.responses) + 1
        /\ \A k \in 1..Len(tr.requests) : tr.requests[k].chunk = tr.chunks[k]
        /\ \A k \in 1..Len(tr.chunks) - 1 : ChunkNo(tr.chunks[k]) < ChunkNo(tr.chunks[k + 1])

\* three chunks, listed by read_dir in some order, were requested one by one
C17_Witness ==
    /\ mode = "run" /\ tr.pc = "ok"
    /\ Len(tr.requests) = 3 /\ Len(tr.responses) = 3
    /\ ChunkNo(tr.requests[3].chunk) = 2

(* ----------------------- continuation hint (C18) ---------------------- *)
\* C18: the request for chunk 0 carries no prompt, and the request for every
\* later chunk carries exactly the text returned for the chunk before it.
C18_HintIsPreviousChunkText ==
    (mode = "run" /\ tr.pc # "none") =>
        \A k \in 1..Len(tr.requests) :
            tr.requests[k].prompt =
                IF k = 1 THEN None ELSE Some(tr.responses[k - 1].text)

\* the third request carried the second text, which is not the first
C18_Witness ==
    /\ mode = "run" /\ Len(tr.requests) = 3
    /\ tr.responses[1].text # tr.responses[2].text
    /\ tr.requests[3].prompt = Some(tr.responses[2].text)

(* ------------------------- chunk offsets (C19) ------------------------ *)
\* the segments of the responses from the k-th on, those of the k-th chunk
\* moved by (k - 1) * d
RECURSIVE OffsetSegments(_, _, _)
OffsetSegments(responses, k, d) ==
    IF k > Len(responses) THEN <<>>
    ELSE LET segs == IF responses[k].segments = None THEN <<>>
                     ELSE responses[k].segments[1]
         IN  [j \in 1..Len(segs) |->
                 Segment(segs[j].start + (k - 1) * d, segs[j].end + (k - 1) * d)]
             \o OffsetSegments(responses, k + 1, d)

\* C19: in the assembled list every segment of chunk i has the start and end
\* the backend reported plus i * chunk_duration_seconds, whatever durations
\* the backend reported and whether or not earlier chunks had segments.
C19_SegmentsOffsetByChunkIndex ==
    (mode = "run" /\ tr.pc # "none") =>
        /\ tr.all_segments = OffsetSegments(tr.responses, 1, tr.dur)
        /\ (tr.ret # None =>
               tr.ret[1].segments = Some(OffsetSegments(tr.responses, 1, tr.dur)))

\* three chunks of 900 s with starts [0,10], [0,5], [0,20], the first two
\* reported shorter than 900 s, were assembled to starts
\* [0, 10, 900, 905, 1800, 1820]
C19_Witness ==
    /\ mode = "run" /\ tr.pc = "ok" /\ Len(tr.responses) = 3
    /\ tr.responses[1].duration = 450 /\ tr.responses[2].duration = 450
    /\ tr.responses[1].segments = Some(<<Segment(0, 10), Segment(10, 30)>>)
    /\ tr.responses[2].segments = Some(<<Segment(0, 5), Segment(5, 9)>>)
    /\ tr.responses[3].segments = Some(<<Segment(0, 20), Segment(20, 40)>>)
    /\ [k \in 1..Len(tr.ret[1].segments[1]) |-> tr.ret[1].segments[1][k].start]
           = <<0, 10, 900, 905, 1800, 1820>>

(* ------------------------ a chunk fails (C20) ------------------------- *)
\* C20: when the request for a chunk has failed, transcribe returns an
\* error, no request is sent for a later chunk, no transcript is returned,
\* the run returns the error, and no row is stored for the item.
C20_ChunkFailureAbortsItem ==
    (mode = "run" /\ tr.pc # "none" /\ tr.failed_chunk # 0) =>
        /\ tr.pc \in {"err", "failed"}
        /\ Len(tr.requests) = tr.failed_chunk
        /\ tr.ret = None /\ transcribe_resp = None
        /\ calls.summarize = 0 /\ calls.insert = 0
        /\ \A k \in 1..Len(store) : store[k].video_id # streams[1].video_id
        /\ pc \in {"Transcribing", "Failed"}
        /\ (tr.pc = "failed" =>
               pc = "Failed" /\ result = "err" /\ failed_in = "transcribe")

\* the second of three chunks failed after the first had been transcribed
C20_Witness ==
    /\ mode = "run" /\ tr.pc = "failed" /\ pc = "Failed"
    /\ tr.total = 3 /\ tr.failed_chunk = 2 /\ Len(tr.responses) = 1
    /\ store = <<>>

(* ---------------- the AudioInput of a run (C21, C22) ------------------ *)
\* C21: when chunking is not requested, the item's whole audio file is
\* transcribed in exactly one backend call (and the run goes on to summarize
\* that transcript): whenever transcribe is about to return, it has sent
\* exactly one request, for the File input.
C21_UnchunkedTranscribesInOneCall ==
    (mode = "run" /\ pc = "Transcribing" /\ chunking_config = None
        /\ tr.pc \in {"ok", "err"}) =>
        /\ tr.input.kind = "File"
        /\ Len(tr.requests) = 1

\* C22: when chunking is enabled with duration d, every transcription
\* request is a Chunked input whose chunk_duration_seconds is d; when it is
\* not enabled, every request is a single-file input.
C22_InputFollowsChunkingConfig ==
    (mode = "run" /\ pc = "Transcribing" /\ tr.input.kind # "none") =>
        IF chunking_config = None THEN tr.input.kind = "File"
        ELSE /\ tr.input.kind = "Chunked"
             /\ tr.input.chunk_duration_seconds = chunking_config[1]

(* ------------------ commit inside the loop (C23) ---------------------- *)
\* C23: items are summarized and committed one at a time in selection
\* order: when the loop turns to item idx, every earlier item has its summary
\* attached and has been handed to the store by an insert call of its own
\* (and the calls of different items do not overlap: the loop is at one item).
C23_CommittedBeforeNextTranscription ==
    (mode = "run" /\ pc = "Transcribing" /\ 2 <= idx /\ idx <= Len(streams)) =>
        /\ \A j \in 1..idx - 1 : streams[j].summary_md # None
        /\ calls.summarize = idx - 1
        /\ calls.insert = idx - 1

(* ---------------- insert of an id that exists (C24) ------------------- *)
\* C24: inserting an item whose video_id already exists in the store is a
\* successful no-op, also when another instance inserted the id between this
\* run's Selection and its Commit: on every step in which the run's insert
\* returns Ok, each row the table held stays where and as it was, and a row
\* is added only for an id the table did not hold.
C24_InsertOfExistingIdIsNoOp ==
    [][(calls'.insert = calls.insert + 1 /\ result' = "ok") =>
          /\ Len(store') >= Len(store)
          /\ SubSeq(store', 1, Len(store)) = store
          /\ \A k \in Len(store) + 1..Len(store') :
                 store'[k].video_id \notin StoredIds]_vars

\* the run returned Ok although every item of its batch had been inserted by
\* another instance after Selection; its insert added nothing
C24_Witness ==
    /\ Succeeded
    /\ streams # <<>>
    /\ BatchIds \cap existing = {}
    /\ BatchIds \subseteq StoredIds
    /\ calls.insert = 1
    /\ inserted = <<>>
    /\ \A i \in 1..Len(streams) : HasTimestamp(streams[i])

(* -------------------- nothing selected (C25) -------------------------- *)
ChannelIds == {channel[i].video_id : i \in 1..Len(channel)}

\* C25: while no item is selected (no candidates on the page, the page did
\* not parse, or every candidate id is in the store) the run makes no audio,
\* transcription or insert call and adds no row; a run that ended with an empty
\* batch failed before Selection was done or returned Ok, and it returned Ok
\* when the lookup found every candidate in the store.
C25_NothingSelectedNothingDone ==
    (mode = "run" /\ streams = <<>>) =>
        /\ calls = NoCalls /\ inserted = <<>> /\ task = <<>>
        /\ pc \notin {"AcquiringAudio", "Transcribing"}
        /\ Ended => \/ result = "ok" /\ pc = "Done"
                    \/ result = "err" /\ failed_in \in {"scrape", "parse", "lookup"}
        /\ (Ended /\ channel # <<>> /\ ChannelIds \subseteq existing) =>
               result = "ok" /\ pc = "Done"

\* a later run found every candidate of a non-empty page in the store and
\* returned Ok without any call
C25_Witness ==
    /\ Succeeded
    /\ channel # <<>> /\ max_streams >= 1
    /\ ChannelIds \subseteq existing
    /\ streams = <<>>
    /\ calls = NoCalls

(* ------------------- Discovery Parser (C26 - C30) --------------------- *)
Returned(fn) == mode = "parser" /\ parse.fn = fn /\ parse.pc = "returned"

\* the page has the list of item nodes at the fixed path
HasItems(json) ==
    /\ json.tabs.json = "array" /\ Len(json.tabs.items) >= 3
    /\ json.tabs.items[3].contents.json = "array"
ItemsOf(json) == json.tabs.items[3].contents.items

\* the page without its k-th item node
Without(json, k) ==
    LET items == ItemsOf(json)
    IN  Page(JsonArray(<<HomeTab, HomeTab,
             Tab(JsonArray(SubSeq(items, 1, k - 1) \o SubSeq(items, k + 1, Len(items))))>>))

OutIds(r) == {r.v[j].video_id : j \in 1..Len(r.v)}

\* flagged upcoming, or without view-count, or without published-time
Flagged(n) ==
    /\ n.kind = "videoRenderer"
    /\ \/ n.upcoming_event_data # None
       \/ n.view_count_text = None
       \/ n.published_time_text = None

\* the node's duration text parses to less than 600 seconds
ShortDuration(n) ==
    /\ n.kind = "videoRenderer" /\ n.length_text # None
    /\ parse_duration_to_seconds(n.length_text[1]) # None
    /\ parse_duration_to_seconds(n.length_text[1])[1] < 600

\* item k is absent from the output, and parse_streams returns what it
\* returns for the page without item k
SilentSkip(k) ==
    /\ parse.ret[1].tag = "Ok" => k \notin OutIds(parse.ret[1])
    /\ parse.ret[1] = parse_streams(Without(parse.arg, k))

\* C26, as stated: every node that is flagged upcoming, lacks view-count,
\* lacks published-time or has a parsed duration below 600 seconds is absent
\* from the output and is a silent skip: it never makes parse_streams return
\* an error and never removes another node from the output.
C26_FilteredNodesAreSilentSkips ==
    (Returned("parse_streams") /\ HasItems(parse.arg)) =>
        \A k \in 1..Len(ItemsOf(parse.arg)) :
            LET n == ItemsOf(parse.arg)[k]
            IN  (Flagged(n) \/ ShortDuration(n)) => SilentSkip(k)

\* C26, amended: a node that is flagged upcoming, lacks view-count or lacks
\* published-time is a silent skip whatever else it holds; a node with a
\* parsed duration below 600 seconds is a silent skip when it has a title
\* run (without one it fails the page, as any unflagged node does).
C26_FilteredNodesAreSilentSkipsIfConvertible ==
    (Returned("parse_streams") /\ HasItems(parse.arg)) =>
        \A k \in 1..Len(ItemsOf(parse.arg)) :
            LET n == ItemsOf(parse.arg)[k]
            IN  (Flagged(n) \/ (ShortDuration(n) /\ n.title.runs # <<>>)) => SilentSkip(k)

\* a page with a flagged node that has no title run, next to a node that is
\* in the output
C26_Witness ==
    /\ Returned("parse_streams") /\ HasItems(parse.arg)
    /\ Len(ItemsOf(parse.arg)) = 2
    /\ Flagged(ItemsOf(parse.arg)[1]) /\ ItemsOf(parse.arg)[1].title.runs = <<>>
    /\ parse.ret[1].tag = "Ok" /\ OutIds(parse.ret[1]) = {2}

AllNumeric(d) == \A k \in 1..Len(d) : d[k].kind = "num"

\* seconds of a duration text under the grammar HH:MM:SS | MM:SS | SS
GrammarSeconds(d) ==
    CASE AllNumeric(d) /\ Len(d) = 3 ->
             Some(d[1].value * 3600 + d[2].value * 60 + d[3].value)
      [] AllNumeric(d) /\ Len(d) = 2 -> Some(d[1].value * 60 + d[2].value)
      [] AllNumeric(d) /\ Len(d) = 1 -> Some(d[1].value)
      [] OTHER -> None

\* C27: parse_duration_to_seconds returns h*3600+m*60+s for HH:MM:SS, m*60+s
\* for MM:SS and s for SS, and no value for a text of any other shape,
\* including one with a non-numeric or an empty component.
C27_DurationFollowsGrammar ==
    Returned("parse_duration_to_seconds") => parse.ret[1] = GrammarSeconds(parse.arg)

\* C28: parse_streams returns a ParseError, and no items, whenever a key of
\* the path to the list of item nodes is absent: no tab at index 2, or the
\* contents under it missing or not a list.
C28_MissingPathIsParseError ==
    (Returned("parse_streams") /\ ~HasItems(parse.arg)) =>
        /\ parse.ret[1].tag = "Err"
        /\ parse.ret[1].e = IF get(parse.arg.tabs, 2) = None
                            THEN "ParseError: tabs[2]" ELSE "ParseError: contents"

\* a page with three tabs whose third tab holds a string where the list of
\* items should be
C28_Witness ==
    /\ Returned("parse_streams")
    /\ get(parse.arg.tabs, 2) # None
    /\ parse.arg.tabs.items[3].contents = JsonString
    /\ parse.ret[1] = Err("ParseError: contents")

\* the places where a script block begins with the ytInitialData assignment
AssignmentBlocks(doc) == {i \in 1..Len(doc) : MatchStart(doc, i)}

\* piece v lies in a script block
InScript(doc, v) ==
    \E o \in 1..v - 1 :
        doc[o].t = "open" /\ \A x \in o + 1..v - 1 : doc[x].t # "close"

\* C29: to_json returns a ParseError when no script block holds the
\* ytInitialData assignment (nor begins with it) or when the captured blob is
\* not valid JSON; otherwise it returns the JSON of the first matching script
\* block in document order.
C29_FirstMatchingBlockOrParseError ==
    Returned("to_json") =>
        LET doc == parse.arg
            r == parse.ret[1]
            first == Least(AssignmentBlocks(doc))
            blob == doc[first + 2]
        IN  /\ (~\E v \in 1..Len(doc) : doc[v].t = "var" /\ InScript(doc, v)) =>
                   r = Err("ParseError")
            /\ AssignmentBlocks(doc) = {} => r = Err("ParseError")
            /\ AssignmentBlocks(doc) # {} =>
                   IF /\ first + 4 <= Len(doc)
                      /\ doc[first + 3].t = "semi" /\ doc[first + 4].t = "close"
                      /\ ~blob.cut /\ blob.json # None
                   THEN r = Ok(blob.json[1])
                   ELSE r = Err("ParseError")

\* two script blocks assign ytInitialData; the first one's JSON is returned
C29_Witness ==
    /\ Returned("to_json")
    /\ Cardinality(Matches(parse.arg)) = 2
    /\ \E i \in Matches(parse.arg) : parse.arg[i + 2] = Blob(Some("second"), FALSE)
    /\ parse.ret[1] = Ok("first")

\* not upcoming, with view-count and published-time
Qualifying(n) == n.kind = "videoRenderer" /\ ~Flagged(n)

\* C30: a qualifying node whose title has no run makes parse_streams fail
\* for the whole page instead of being skipped; the error is the title's
\* ParseError unless an earlier node has failed the page already.
C30_TitlelessNodeFailsPage ==
    (Returned("parse_streams") /\ HasItems(parse.arg)) =>
        \A k \in 1..Len(ItemsOf(parse.arg)) :
            LET items == ItemsOf(parse.arg)
            IN  (Qualifying(items[k]) /\ items[k].title.runs = <<>>) =>
                    /\ parse.ret[1].tag = "Err"
                    /\ (\A j \in 1..k - 1 : parse_item(items[j]).tag # "Err") =>
                           parse.ret[1] = Err("ParseError: title")

\* the first node is fit for the output, the second qualifies but has no
\* title run: the page fails
C30_Witness ==
    /\ Returned("parse_streams") /\ HasItems(parse.arg)
    /\ Len(ItemsOf(parse.arg)) = 2
    /\ parse_item(ItemsOf(parse.arg)[1]).tag = "Ok"
    /\ Qualifying(ItemsOf(parse.arg)[2]) /\ ItemsOf(parse.arg)[2].title.runs = <<>>
    /\ ItemsOf(parse.arg)[2].length_text = Some(<<Num(10), Num(0)>>)
    /\ parse.ret[1] = Err("ParseError: title")

(* ---------------- the cleanup chain (C31, C32) ------------------------ *)
IsChainTool(t) == t # "download_audio"
\* the chain tools this attempt has called, in call order
ChainCalls == SelectSeq(au.tools, IsChainTool)

\* the trimmed file of the item, at the path clean_up builds, was there when
\* the attempt began
TrimmedAtStart == chain_path(au.stream, CleanArg, 3) \in au.at_start

\* clean_up has been entered in this attempt
CleanEntered == au.dl_ret # None /\ au.pc \in {"cleaning", "ok", "err"}

\* C31: when the trimmed file is absent the tools run in the order denoise,
\* normalize, trim, each one called only after the one before it returned Ok;
\* when the trimmed file is present none of the three is called, whatever
\* the state of the denoised and normalized files.
C31_ChainOrderedAndGated ==
    mode = "audio" =>
        LET order == <<"denoise_audio", "normalize_volume", "trim_silence">>
        IN  /\ Len(ChainCalls) <= 3
            /\ \A k \in 1..Len(ChainCalls) : ChainCalls[k] = order[k]
            /\ au.failed > 0 => Len(ChainCalls) = au.failed
            /\ (CleanEntered /\ TrimmedAtStart) => ChainCalls = <<>> /\ au.pc = "ok"
            /\ (CleanEntered /\ ~TrimmedAtStart) => ChainCalls # <<>>
            /\ (CleanEntered /\ ~TrimmedAtStart /\ au.pc = "ok") => ChainCalls = order

\* all three tools ran in order while the intermediates of an earlier
\* attempt were in the directory
C31_Witness ==
    /\ mode = "audio" /\ au.pc = "ok" /\ au.arg = "dir"
    /\ ~TrimmedAtStart
    /\ chain_path(au.stream, AudioDlPath, 1) \in au.at_start
    /\ chain_path(au.stream, AudioDlPath, 2) \in au.at_start
    /\ ChainCalls = <<"denoise_audio", "normalize_volume", "trim_silence">>

\* C32: when a cleanup step fails, clean_up returns the error and no later
\* step is called; nothing written so far is removed; and as long as the
\* trimmed file is absent, the next attempt runs the chain from denoise
\* again, whatever intermediates are there.
C32_ChainFailureAbortsAndRestarts ==
    mode = "audio" =>
        /\ au.failed > 0 =>
               /\ au.pc = "err" /\ au.ret = None
               /\ Len(ChainCalls) = au.failed
               /\ au.at_start \subseteq DirFiles(audio_dir)
        /\ (au.prev_end = "chain_err" /\ CleanEntered /\ ~TrimmedAtStart) =>
               ChainCalls[1] = "denoise_audio"

\* denoise failed in the attempt before, leaving its output; this attempt
\* found that file, called denoise again and went through the chain
C32_Witness ==
    /\ mode = "audio" /\ au.arg = "dir" /\ au.attempt = 2
    /\ au.prev_end = "chain_err"
    /\ au.at_start = {audio_mp3_path(au.stream, AudioDlPath),
                      chain_path(au.stream, AudioDlPath, 1)}
    /\ au.pc = "ok"
    /\ ChainCalls = <<"denoise_audio", "normalize_volume", "trim_silence">>

(* ------------- siblings of a failed audio task (C33) ------------------ *)
\* C33: once an audio task has failed, a sibling task that is running is not
\* cancelled (it goes on to its own Ok or Err, and the stage does not return
\* before it has), and an item whose task has not been started is never
\* started.
C33_UnstartedNeverStartAfterFailure ==
    [][(mode = "run" /\ pc = "AcquiringAudio" /\ Errored # {}) =>
          /\ pc' = "AcquiringAudio" =>
                \A i \in 1..Len(task) :
                    /\ task[i] = "running" => task'[i] \in {"running", "ok", "err"}
                    /\ task[i] = "pending" => task'[i] = "pending"
          /\ pc' # "AcquiringAudio" => Running = {}]_vars

(* ----------------------- chunk reuse (C34) ---------------------------- *)
\* the files a sequence of chunk paths names
Range(q) == {q[k] : k \in 1..Len(q)}

\* transcribe is entered with a Chunked input on this step
ChunkedCallStep ==
    /\ mode = "run" /\ tr.pc = "idle" /\ tr'.pc # "idle"
    /\ tr'.input # NoInput /\ tr'.input.kind = "Chunked"

\* C34: a transcribe call with chunking that finds chunk files in the item's
\* chunk directory does not call the split tool and transcribes exactly the
\* files it found; one that finds none calls the split tool once, before any
\* request is sent; no call splits twice, and every request carries one of the
\* call's chunk files.
C34_ChunksReusedOrSplitOnce ==
    /\ [][ChunkedCallStep =>
            IF chunks_exist(audio_dir, streams[idx])
            THEN /\ tr'.split_calls = 0 /\ tr'.pc = "request"
                 /\ Range(tr'.chunks) = ChunkFiles(audio_dir, streams[idx])
                 /\ Len(tr'.chunks) = Cardinality(ChunkFiles(audio_dir, streams[idx]))
                 /\ ChunkFiles(audio_dir', streams[idx]) = ChunkFiles(audio_dir, streams[idx])
            ELSE /\ tr'.split_calls = 1 /\ tr'.pc = "splitting"
                 /\ tr'.requests = <<>>]_vars
    /\ []((mode = "run" /\ tr.pc \notin {"none", "idle", "returned"}) =>
            /\ tr.split_calls <= 1
            /\ tr.pc = "splitting" => tr.requests = <<>> /\ tr.split_calls = 1
            /\ \A k \in 1..Len(tr.requests) : tr.requests[k].chunk = tr.chunks[k])

\* a call that found the chunks of an earlier attempt has transcribed them
\* all without a split
C34_Witness ==
    /\ mode = "run" /\ tr.pc = "ok" /\ tr.attempt >= 2
    /\ tr.split_calls = 0
    /\ Len(tr.chunks) >= 2 /\ Len(tr.requests) = Len(tr.chunks)
    /\ Range(tr.chunks) = ChunkFiles(audio_dir, streams[idx])

(* -------------------- transcript assembly (C35) ----------------------- *)
\* the texts of the responses with one space between neighbours
RECURSIVE JoinTexts(_)
JoinTexts(resps) ==
    IF resps = <<>> THEN <<>>
    ELSE IF Len(resps) = 1 THEN resps[1].text
    ELSE resps[1].text \o <<" ">> \o JoinTexts(Tail(resps))

RECURSIVE SumDurations(_)
SumDurations(resps) ==
    IF resps = <<>> THEN 0 ELSE resps[1].duration + SumDurations(Tail(resps))

\* the text has no space at either end
Trimmed(text) == text = <<>> \/ (text[1] # " " /\ text[Len(text)] # " ")

\* C35: when transcribe returns Ok, every chunk has been answered in chunk
\* order, the returned text is the answers' texts joined by single spaces and
\* trimmed at both ends, and the returned duration is the sum of the
\* durations the answers reported.
C35_TranscriptIsJoinedAndSummed ==
    (mode = "run" /\ tr.pc = "ok") =>
        /\ Len(tr.responses) = Len(tr.chunks)
        /\ \A k \in 1..Len(tr.requests) : tr.requests[k].chunk = tr.chunks[k]
        /\ tr.ret[1].text = trim(JoinTexts(tr.responses))
        /\ Trimmed(tr.ret[1].text)
        /\ tr.ret[1].duration = SumDurations(tr.responses)

\* three chunks were answered, the texts of the first and the last beginning
\* with white space of their own
C35_Witness ==
    /\ mode = "run" /\ tr.pc = "ok" /\ Len(tr.responses) = 3
    /\ tr.responses[1].text = <<" ", "y">>
    /\ tr.responses[2].text = <<"x">>
    /\ tr.responses[3].text = <<" ", "y">>
    /\ tr.responses[1].duration # tr.responses[2].duration
    /\ tr.ret[1].text = <<"y", " ", "x", " ", " ", "y">>

(* ------------------- no item-level retry (C36) ------------------------ *)
Started == {i \in 1..Len(task) : task[i] # "pending"}
Summarized == {i \in 1..Len(streams) : streams[i].summary_md # None}

\* C36: within one run no operation is repeated for an item: there is one
\* acquisition per started item, one transcription and then one summarization
\* per item the loop has reached, a failed call being counted and not made
\* again, and at most one insert call; the insert call is given the whole
\* batch after the loop, so a successful run has handed each selected item
\* to the store exactly once.
C36_EachOperationOncePerItem ==
    /\ [](mode = "run" =>
            /\ calls.download = Cardinality(Started)
            /\ calls.summarize = Cardinality(Summarized)
                                    + (IF failed_in = "summarize" THEN 1 ELSE 0)
            /\ calls.transcribe = Cardinality(Summarized)
                                    + (IF transcribe_resp # None \/ failed_in = "transcribe"
                                       THEN 1 ELSE 0)
            /\ calls.insert <= 1
            /\ (Succeeded /\ streams # <<>>) =>
                   /\ calls.insert = 1
                   /\ calls.download = Len(streams)
                   /\ calls.transcribe = Len(streams)
                   /\ calls.summarize = Len(streams))
    /\ [][(mode = "run" /\ calls'.insert > calls.insert) =>
             /\ calls.insert = 0 /\ calls'.insert = 1
             /\ idx = Len(streams) + 1 /\ streams' = streams
             /\ Summarized = 1..Len(streams)
             /\ pc' \in {"Done", "Failed"}]_vars

\* a run of two items returned Ok after one call per item and one insert
C36_Witness ==
    /\ Succeeded /\ Len(streams) = 2
    /\ calls = [download |-> 2, transcribe |-> 2, summarize |-> 2, insert |-> 1]
    /\ Len(inserted) = 2

(* --------------- the fields of an item in the run (C37) --------------- *)
InBatch == mode = "run" /\ pc \in {"AcquiringAudio", "Transcribing", "Done", "Failed"}

\* the item as the parser made it
AsParsed(s) == [s EXCEPT !.summary_md = None]

\* the candidate of the page a row was made from
ParsedFor(row) == CHOOSE c \in {channel[j] : j \in 1..Len(channel)} : c.video_id = row.video_id

\* the text columns of the row other than the summary hold the parsed texts
TextColumnsAsParsed(row) ==
    /\ \E j \in 1..Len(channel) : channel[j].video_id = row.video_id
    /\ row.title = ParsedFor(row).title
    /\ row.view_count = ParsedFor(row).view_count
    /\ row.duration = ParsedFor(row).duration

\* C37, as stated: every row the run stored holds the video id, title, view
\* count, published-time text and duration text parsed from the page.
C37_PersistedFieldsEqualParsed ==
    mode = "run" =>
        \A k \in 1..Len(inserted) :
            /\ TextColumnsAsParsed(inserted[k])
            /\ "streamed_date" \in DOMAIN inserted[k]
            /\ inserted[k].streamed_date = ParsedFor(inserted[k]).streamed_date

\* C37, amended: from selection to the end of the run every item of the
\* batch is a candidate of the page with nothing but summary_md changed;
\* summary_md changes only from None to the summary computed for the item the
\* loop is at; and a stored row holds the parsed video id, title, view count
\* and duration text, the item's summary, and in place of the published-time
\* text the timestamp derived from it.
C37_OnlySummaryChangesRowDerivesTimestamp ==
    /\ [](InBatch =>
            /\ \A i \in 1..Len(streams) :
                  \E j \in 1..Len(channel) : AsParsed(streams[i]) = channel[j]
            /\ \A k \in 1..Len(inserted) :
                  /\ TextColumnsAsParsed(inserted[k])
                  /\ inserted[k].summary_md # None
                  /\ inserted[k].stream_timestamp
                         = timestamp_from_time_ago(ParsedFor(inserted[k]))[1]
                  /\ "streamed_date" \notin DOMAIN inserted[k])
    /\ [][(InBatch /\ pc' = pc /\ streams' # streams) =>
             /\ Len(streams') = Len(streams)
             /\ \A i \in 1..Len(streams) :
                   streams'[i] # streams[i] =>
                       /\ i = idx /\ transcribe_resp # None
                       /\ streams[i].summary_md = None
                       /\ streams'[i] = [streams[i] EXCEPT
                              !.summary_md = Some(SummaryOf(transcribe_resp[1]))]]_vars

\* two summarized items were stored
C37_Witness ==
    /\ Succeeded /\ Len(streams) = 2 /\ Len(inserted) = 2
    /\ \A i \in 1..2 : streams[i].summary_md # None
    /\ inserted[1].stream_timestamp # inserted[2].stream_timestamp

(* ------------- a failed removal and the run's result (C38) ------------ *)
\* the errors run can return from the stage it is in
ErrorsOf(stage) ==
    CASE stage = "Discovering"    -> {"scrape", "parse"}
      [] stage = "Selecting"      -> {"lookup"}
      [] stage = "AcquiringAudio" -> {"audio"}
      [] stage = "Transcribing"   ->
             IF idx = Len(streams) + 1 THEN {"insert"}
             ELSE IF transcribe_resp = None THEN {"transcribe"}
             ELSE {"summarize"}
      [] OTHER -> {}

\* run returns on this step
ReturnStep == mode = "run" /\ pc \notin {"Done", "Failed"} /\ pc' \in {"Done", "Failed"}

\* C38: what run returns does not depend on the removal of the audio
\* directory at teardown: on the step on which run returns, with the removal
\* succeeding or failing, the result is Ok exactly when run ends in Done, and
\* otherwise it is the error of the collaborator that failed in the stage the
\* run was in; a failed removal is never the error and never turns an Ok
\* into an error.
C38_RemovalFailureKeepsResult ==
    /\ [][ReturnStep =>
            \/ /\ pc' = "Done" /\ result' = "ok" /\ failed_in' = "none"
               /\ pc \in {"Selecting", "Transcribing"}
               /\ pc = "Transcribing" => idx = Len(streams) + 1
            \/ /\ pc' = "Failed" /\ result' = "err"
               /\ failed_in' \in ErrorsOf(pc)
               /\ store' = store]_vars
    /\ []((Ended /\ drop_failed) =>
            /\ result = "ok" <=> pc = "Done"
            /\ result = "ok" <=> failed_in = "none"
            /\ result = "ok" => Summarized = 1..Len(streams))

\* the removal failed when a run that stored two items returned Ok
C38_Witness ==
    /\ Succeeded /\ drop_failed /\ audio_dir # None
    /\ Len(inserted) = 2 /\ failed_in = "none"

(* ------------- items and their artifacts in the loop (C39) ------------ *)
\* the item the loop is at, as the collected pair names it
Current == stream_audio_paths[idx].stream

\* the closures did not return in the order of the items
FinishedOutOfOrder ==
    \E k, l \in 1..Len(finished) : k < l /\ finished[k].stream > finished[l].stream

\* C39: in whatever order the closures of the parallel map returned, the
\* collected Vec pairs every item once with the cleaned path made for it; the
\* transcript the loop holds is the one of the current item's own path; and a
\* summary attached to an item is the summary of that item's own transcript.
C39_ItemsKeepTheirArtifacts ==
    (mode = "run" /\ pc \in {"Transcribing", "Done", "Failed"}
                 /\ stream_audio_paths # <<>>) =>
        /\ Len(stream_audio_paths) = Len(streams)
        /\ \A k \in 1..Len(stream_audio_paths) :
              /\ stream_audio_paths[k].stream = k
              /\ stream_audio_paths[k].audio_path
                     = trimmed_path(streams[stream_audio_paths[k].stream])
        /\ (transcribe_resp # None /\ idx <= Len(streams)) =>
              transcribe_resp[1] = TranscriptOf(trimmed_path(streams[Current]))
        /\ \A i \in 1..Len(streams) :
              streams[i].summary_md # None =>
                  streams[i].summary_md
                     = Some(SummaryOf(TranscriptOf(trimmed_path(streams[i]))))

\* the second item's audio was ready before the first item's, and both
\* items got their summaries
C39_Witness ==
    /\ Succeeded /\ Len(streams) = 2
    /\ FinishedOutOfOrder
    /\ \A i \in 1..2 : streams[i].summary_md # None
    /\ streams[1].video_id # streams[2].video_id

====
